---- MODULE Spec2Model ----
(***************************************************************************)
(* Model of the VFD animation agent (vfd_agent.py, frame_capture.py): the  *)
(* Generator retry loop, the sandbox validator with its detached helper,   *)
(* the bounded work queue, the DisplayController, the State accumulator    *)
(* and replay mode.                                                        *)
(*                                                                         *)
(* A function id (anim_<time>_<random>) is modelled by the number of the   *)
(* attempt sequence that drew it; a code version is the pair of function   *)
(* id and attempt number.                                                  *)
(***************************************************************************)
EXTENDS Integers, Sequences, FiniteSets, TLC

\* ---------------------------------------------------------------- bounds
MaxRequests == 6       \* generation requests issued in one run of the process
MaxFrames == 2         \* frames a generated callable writes in one run
SeqAttempts == 2       \* attempts followed in the attempt specification
MaxSaves == 103        \* State.save calls in the State specification
PatternLen == 3        \* period of the status pattern in the State specification
MaxRawLines == 3       \* lines of a response text in the sanitizer specification
MaxPresses == 2        \* key presses in the display specification
DispAnimations == 3    \* generation requests in the display specification

\* ------------------------------------------------------- program constants
MAX_RETRIES == 5
QUEUE_SIZE == 2
FRAME_WIDTH == 20
HISTORY_CAP == 100
ERROR_CAP == 200
SIM_DURATION == 1
VALIDATION_FRAME_RATE == 600
FRAME_RATE == 6

VARIABLES
    mode,          \* "continuous" | "singleshot" | "replay" (main's branch)
    phase,         \* "running" | "exited" (the process)
    queue,         \* animation_queue: sequence of Animations
    gpc,           \* position of the thread running generate_one[_singleshot]
    gen_count,     \* Generator.gen_count
    requests,      \* generation requests issued so far in this run
    func_name,     \* function id of the current attempt sequence
    attempt,       \* loop variable of the retry loop
    all_errors,    \* accumulator of tagged errors of the current sequence
    code,          \* the code generate_code returned for this attempt
    files,         \* output_dir: function id -> code last written to <id>.py
    failed_files,  \* failed_<id>_attempt<n>.txt diagnostics
    capture_files, \* frame_captures/<id>.jsonl written after validation
    hpc,           \* validation helper thread: position
    hwritten,      \* write_frame calls the helper has made
    result,        \* validate_runtime's result dict {done, error}
    frames,        \* FrameCapture.frames of the validation capture
    deadline_miss, \* the join ended by timeout with the helper not done
    done_read,     \* value of result['done'] read by the caller
    vr_ret,        \* validate_runtime's return value
    events,        \* telemetry events.jsonl: generation records
    training,      \* telemetry training.jsonl: training examples
    data,          \* State.data
    status_pattern,\* State specification: statuses fed to State.save
    outcomes,      \* every outcome ever passed to State.save, in order
    dpc,           \* position of the main thread / DisplayController
    animation,     \* the Animation being played
    animations,    \* replay mode: the loaded Animations
    replay_idx,    \* replay mode: index of the Animation played next
    enqueued,      \* every Animation ever put on the queue, in order
    dequeued,      \* every Animation ever taken from the queue, in order
    constructed,   \* every Animation object ever constructed
    validated,     \* code versions that passed validate_runtime
    state_file,    \* State.file: the snapshot last written to disk
    state_lock,    \* State.lock is held
    spc,           \* State specification: position of the caller of save
    write_ok,      \* State specification: the last snapshot write succeeded
    kb_running,    \* KeyboardListener._listen is polling stdin
    bookmark_pressed, \* KeyboardListener.bookmark_pressed
    downvote_pressed, \* KeyboardListener.downvote_pressed
    pref_events,   \* events.jsonl: the bookmark and downvote records
    press_playing, \* per key: what was playing when the pending press came
    edges,         \* per key: presses that found the flag clear
    fresh,         \* per key: presses not made between a press and its read
    pref_lost,     \* per key: records that could not be written
    presses,       \* per character: key presses read by the listener
    raw_code,      \* sanitizer specification: the text the service returns
    clean_ret,     \* the value clean_code returned last
    mpc,           \* position of main() around its loops
    env,           \* what init_check and DisplayController.start find
    isatty,        \* sys.stdin.isatty()
    term_mode,     \* terminal mode of the input device
    old_settings,  \* KeyboardListener.old_settings
    lpc,           \* position of the thread running KeyboardListener._listen
    exit_status,   \* exit status of the process once it has ended
    loops,         \* the long-lived loops started so far
    loading_active,\* DisplayController.loading_active
    ldpc,          \* position of the thread running show_loading
    sent,          \* the last request of the sequence: number and errors
    cycles,        \* show_placeholder: the loop variable i
    capture_enabled, \* DisplayController.start: capture_enabled
    frame_capture, \* frames of the playback FrameCapture, by their writer
    playback_files,\* frame_captures/<id>_playback.jsonl, by function id
    gen_running,   \* Generator.running
    disp_running   \* DisplayController.running

vars == <<mode, phase, queue, gpc, gen_count, requests, func_name, attempt, all_errors,
          code, files, failed_files, capture_files, hpc, hwritten, result,
          frames, deadline_miss, done_read, vr_ret, events, training, data,
          status_pattern,
          outcomes, dpc, animation, animations, replay_idx, enqueued,
          dequeued, constructed, validated, state_file, state_lock, spc,
          write_ok, kb_running, bookmark_pressed, downvote_pressed,
          pref_events, press_playing, edges, fresh, pref_lost, presses,
          raw_code, clean_ret, mpc, env, isatty, term_mode, old_settings,
          lpc, exit_status, loops, loading_active, ldpc, sent, cycles,
          capture_enabled, frame_capture, playback_files, gen_running,
          disp_running>>

genVars == <<gpc, gen_count, requests, func_name, attempt, all_errors, code>>
diskVars == <<files, failed_files, capture_files>>
vrVars == <<hpc, hwritten, result, frames, deadline_miss, done_read, vr_ret>>
stateVars == <<events, training, data, status_pattern, outcomes>>
dispVars == <<dpc, animation, animations, replay_idx>>
ghostVars == <<enqueued, dequeued, constructed, validated>>
saveVars == <<state_file, state_lock, spc, write_ok>>
kbVars == <<kb_running, bookmark_pressed, downvote_pressed, pref_events,
            press_playing, edges, fresh, pref_lost, presses>>
textVars == <<raw_code, clean_ret>>
loadVars == <<loading_active, ldpc>>
capVars == <<capture_enabled, frame_capture, playback_files>>
runVars == <<gen_running, disp_running>>
coreVars == <<mpc, env, isatty, term_mode, old_settings, lpc, exit_status,
              loops, loadVars, cycles, capVars>>
procVars == <<coreVars, runVars>>
lifeVars == <<procVars, sent>>

\* ------------------------------------------------------------ value sets
FuncIds == 1..MaxRequests
NoCode == [kind |-> "none", nframes |-> 0, ver |-> <<0, 0>>]
NoAnimation == [func_name |-> 0, code |-> NoCode]
NoCleanRet == [code |-> <<>>, error |-> ""]
NoResult == [valid |-> FALSE, error |-> "", capture |-> <<>>, has_capture |-> FALSE]
NoStatus == -1
NoRequest == [attempt |-> 0, errors |-> <<>>]

\* What the text of a generated candidate does once it is cleaned:
\* "badsyntax" fails compile(); "bindraise" raises in exec(); "missing" does
\* not define the function; the others define it, and the callable writes
\* nframes frames and then returns ("return"), raises an IndexError
\* ("raise_index") or another exception ("raise"), or never ends ("hang").
RunKinds == {"return", "raise", "raise_index", "hang"}
CodeKinds == {"badsyntax", "bindraise", "missing"} \cup RunKinds

\* Responses of generate_code: a request failure (timeout, transport error,
\* empty response), text the sanitizer rejects, or cleaned code.
Responses ==
    {[kind |-> "request_failed", nframes |-> 0],
     [kind |-> "unclean", nframes |-> 0]}
    \cup {[kind |-> k, nframes |-> 0] : k \in {"badsyntax", "bindraise", "missing"}}
    \cup {[kind |-> k, nframes |-> n] : k \in RunKinds, n \in 0..MaxFrames}

\* The responses the pipeline specification draws from.
PipelineResponses ==
    {[kind |-> "request_failed", nframes |-> 0],
     [kind |-> "return", nframes |-> 1],
     [kind |-> "hang", nframes |-> 0]}

Range(s) == {s[i] : i \in 1..Len(s)}
Min(a, b) == IF a < b THEN a ELSE b
Max(a, b) == IF a > b THEN a ELSE b

\* s[-n:]
LastN(s, n) == SubSeq(s, Max(1, Len(s) - n + 1), Len(s))

\* ------------------------------------------------------------- frames
\* A line is a sequence of characters (numbers; 0 is the space).  The
\* callable's i-th write_frame call passes RawFrame(i): lines shorter than,
\* longer than and exactly as wide as the display.
RawLine(i) ==
    CASE i % 3 = 1 -> [j \in 1..5 |-> 1]
      [] i % 3 = 2 -> [j \in 1..(FRAME_WIDTH + 5) |-> j]
      [] OTHER     -> [j \in 1..FRAME_WIDTH |-> 3]

RawFrame(i) == <<RawLine(i), RawLine(i + 1)>>

\* line[:20].ljust(20)
NormalizeLine(line) ==
    LET cut == SubSeq(line, 1, Min(Len(line), FRAME_WIDTH))
    IN cut \o [j \in 1..(FRAME_WIDTH - Len(cut)) |-> 0]

\* FrameCapture._capturing_write_frame: the frame appended to self.frames
CapturedFrame(frame) == <<NormalizeLine(frame[1]), NormalizeLine(frame[2])>>

\* -------------------------------------------------------------- queue
\* queue.Queue(maxsize=QUEUE_SIZE): qsize, the full test put() blocks on,
\* put and get.
\* mutant: the size is reported one too small
qsizeOffByOne(q) == IF Len(q) > 0 THEN Len(q) - 1 ELSE 0

qsize(q) == Len(q)
QueueFull(q) == QUEUE_SIZE > 0 /\ qsize(q) >= QUEUE_SIZE
\* mutant: the item is put at the head (a stack, not a FIFO)
QueuePutFront(q, item) == <<item>> \o q

QueuePut(q, item) == Append(q, item)
QueueGetItem(q) == Head(q)
QueueGetRest(q) == Tail(q)

\* ---------------------------------------------------------- error texts
\* An entry of the error accumulator is a tag and, for a generate_code
\* failure, the attempt number.  A text built from entries is a sequence of
\* pieces: each piece is the entry (or the newline that joins two entries)
\* and the number of its characters the text holds.
\* ErrorLen: the length of the text of an entry, for the messages
\* "Gen[1]: Timeout", "Save: " and an OSError message, "Syntax: Line 1:
\* invalid syntax", "Function missing", "Runtime: Timeout: animation hung
\* (>2s for 1s test)" and "Compile: " with a message cut to 100 characters.
ErrorLen(e) ==
    CASE e.tag = "Gen" -> 15
      [] e.tag = "Save" -> 60
      [] e.tag = "Syntax" -> 30
      [] e.tag = "Function missing" -> 16
      [] e.tag = "Runtime" -> 50
      [] OTHER -> 109

ErrorText(e) == [entry |-> e, chars |-> ErrorLen(e)]
NewlinePiece == [entry |-> [tag |-> "newline", attempt |-> 0], chars |-> 1]

\* '\n'.join(errs)
RECURSIVE JoinErrors(_)
JoinErrors(errs) ==
    IF errs = <<>> THEN <<>>
    ELSE IF Len(errs) = 1 THEN <<ErrorText(errs[1])>>
    ELSE <<ErrorText(errs[1]), NewlinePiece>> \o JoinErrors(Tail(errs))

\* len(text)
RECURSIVE TextLen(_)
TextLen(t) == IF t = <<>> THEN 0 ELSE t[1].chars + TextLen(Tail(t))

\* text[:n]
RECURSIVE Slice(_, _)
Slice(t, n) ==
    IF t = <<>> \/ n <= 0 THEN <<>>
    ELSE IF t[1].chars <= n
    THEN <<t[1]>> \o Slice(Tail(t), n - t[1].chars)
    ELSE <<[t[1] EXCEPT !.chars = n]>>

\* -------------------------------------------------------------- State
EmptyData == [generations |-> <<>>, success |-> 0, failure |-> 0]

\* The record save appends: the error is cut to ERROR_CAP characters.
Outcome(func, status, error) ==
    [function |-> func, status |-> status, error |-> Slice(error, ERROR_CAP)]

\* The state file: absent, a snapshot of State.data, or the partial text a
\* failed json.dump leaves behind (open(file, 'w') has truncated the file).
NoFile == [kind |-> "absent", data |-> EmptyData]
WriteOutcomes == {"ok", "open_fails", "dump_fails"}

\* with open(self.file, 'w') as f: json.dump(self.data, f)
SnapshotWrite(file, d, w) ==
    CASE w = "ok" -> [kind |-> "snapshot", data |-> d]
      [] w = "open_fails" -> file
      [] OTHER -> [kind |-> "partial", data |-> EmptyData]

\* mutant: the counters are recounted from the capped history
StateSaveRecount(d, func, status, error) ==
    LET appended == Append(d.generations, Outcome(func, status, error))
        capped == LastN(appended, HISTORY_CAP)
        count(st) == Cardinality({i \in 1..Len(capped) : capped[i].status = st})
    IN [generations |-> capped, success |-> count("success"),
        failure |-> count("failure")]

\* mutant: the cap keeps the oldest entries and drops the new one
StateSaveKeepOldest(d, func, status, error) ==
    LET appended == Append(d.generations, Outcome(func, status, error))
        counted == [d EXCEPT ![status] = @ + 1]
    IN [counted EXCEPT !.generations =
            SubSeq(appended, 1, Min(Len(appended), HISTORY_CAP))]

\* State.save: append the outcome, increment the counter of its status,
\* keep the latest HISTORY_CAP entries (the part of save before the
\* snapshot is written).
StateSave(d, func, status, error) ==
    LET appended == Append(d.generations, Outcome(func, status, error))
        counted == [d EXCEPT ![status] = @ + 1]
    IN [counted EXCEPT !.generations = LastN(appended, HISTORY_CAP)]


\* ------------------------------------------------------------ sanitizer
\* A text is a sequence of characters (strings of length one).
Whitespace == {" ", "\n", "\t", "\r"}
\* The lower-case letter of every capital letter
LowerOf ==
    [A |-> "a", B |-> "b", C |-> "c", D |-> "d", E |-> "e", F |-> "f",
     G |-> "g", H |-> "h", I |-> "i", J |-> "j", K |-> "k", L |-> "l",
     M |-> "m", N |-> "n", O |-> "o", P |-> "p", Q |-> "q", R |-> "r",
     S |-> "s", T |-> "t", U |-> "u", V |-> "v", W |-> "w", X |-> "x",
     Y |-> "y", Z |-> "z"]
Digits ==
    <<"0", "1", "2", "3", "4", "5", "6", "7", "8", "9">>

\* c.lower()
LowerChar(c) == IF c \in DOMAIN LowerOf THEN LowerOf[c] ELSE c

\* s.lower()
Lower(s) == [i \in 1..Len(s) |-> LowerChar(s[i])]

\* s[i-1:].startswith(pat), s.startswith(pat), pat in s
MatchAt(s, pat, i) ==
    /\ i + Len(pat) - 1 <= Len(s)
    /\ \A j \in 1..Len(pat) : s[i + j - 1] = pat[j]
StartsWith(s, pat) == MatchAt(s, pat, 1)
Contains(s, pat) == \E i \in 1..(Len(s) - Len(pat) + 1) : MatchAt(s, pat, i)

\* s.replace(pat, ""): the occurrences are found from left to right, each
\* search starting behind the occurrence before it
RECURSIVE RemoveFrom(_, _, _)
RemoveFrom(s, pat, i) ==
    LET found == {k \in i..(Len(s) - Len(pat) + 1) : MatchAt(s, pat, k)}
    IN IF found = {} THEN SubSeq(s, i, Len(s))
       ELSE LET k == CHOOSE m \in found : \A n \in found : m <= n
            IN SubSeq(s, i, k - 1) \o RemoveFrom(s, pat, k + Len(pat))
RemoveAll(s, pat) == RemoveFrom(s, pat, 1)

\* s.strip()
Strip(s) ==
    LET kept == {i \in 1..Len(s) : s[i] \notin Whitespace}
    IN IF kept = {} THEN <<>>
       ELSE SubSeq(s, CHOOSE m \in kept : \A n \in kept : m <= n,
                      CHOOSE m \in kept : \A n \in kept : m >= n)

\* s.split('\n'): line k lies between the newlines k - 1 and k
Split(s) ==
    LET breaks == {i \in 1..Len(s) : s[i] = "\n"}
        Break(k) == IF k = 0 THEN 0
                    ELSE IF k > Cardinality(breaks) THEN Len(s) + 1
                    ELSE CHOOSE p \in breaks :
                             Cardinality({q \in breaks : q < p}) = k - 1
    IN [k \in 1..(Cardinality(breaks) + 1) |->
            SubSeq(s, Break(k - 1) + 1, Break(k) - 1)]

\* '\n'.join(lines)
RECURSIVE JoinLines(_)
JoinLines(ls) ==
    IF Len(ls) = 0 THEN <<>>
    ELSE IF Len(ls) = 1 THEN ls[1]
    ELSE ls[1] \o <<"\n">> \o JoinLines(Tail(ls))

\* The literals of clean_code; Chr96 is the backquote character, chr(96)
Chr96 == "chr(96)"
Fence == <<Chr96, Chr96, Chr96>>
DoubleFence == Fence \o Fence
DefKeyword == <<"d", "e", "f", " ">>
AnimatorWord ==
    <<"a", "n", "i", "m", "a", "t", "o", "r">>
WriteFrameWord ==
    <<"w", "r", "i", "t", "e", "_", "f", "r", "a", "m", "e">>
MIN_CODE_LEN == 50
ImportHeader ==
    <<"f", "r", "o", "m", " ", "c", "d", "5", "2", "2", "0", " ",
      "i", "m", "p", "o", "r", "t", " ", "D", "i", "f", "f", "A",
      "n", "i", "m", "a", "t", "o", "r", "\n", "i", "m", "p", "o",
      "r", "t", " ", "r", "a", "n", "d", "o", "m", "\n", "i", "m",
      "p", "o", "r", "t", " ", "m", "a", "t", "h", "\n", "\n">>

\* The text of a function id: anim_<time>_<random> is "anim_" and one digit
FuncText(f) == <<"a", "n", "i", "m", "_", Digits[f + 1]>>

\* clean_code returns (None, error) or (full_code, ""); None is the empty
\* text here (full_code is never empty, it begins with the import header).
None == <<>>

\* mutant: the fallback search takes any line holding "def "
FuncStartAnyDef(lines, fn) ==
    LET named == {i \in 1..Len(lines) :
                      StartsWith(Strip(lines[i]), DefKeyword \o fn)}
        fallback == {i \in 1..Len(lines) : Contains(lines[i], DefKeyword)}
        found == IF named # {} THEN named ELSE fallback
    IN IF found = {} THEN 0 ELSE CHOOSE i \in found : \A j \in found : i <= j

\* The line clean_code starts the function at: the first line that, once
\* stripped, begins with "def <func_name>", else the first line holding
\* "def " and, in lower case, "animator"; 0 stands for func_start = -1.
\* mutant: the fallback search is tried first
FuncStartFallbackFirst(lines, fn) ==
    LET named == {i \in 1..Len(lines) :
                      StartsWith(Strip(lines[i]), DefKeyword \o fn)}
        fallback == {i \in 1..Len(lines) :
                         /\ Contains(lines[i], DefKeyword)
                         /\ Contains(Lower(lines[i]), AnimatorWord)}
        found == IF fallback # {} THEN fallback ELSE named
    IN IF found = {} THEN 0 ELSE CHOOSE i \in found : \A j \in found : i <= j

FuncStart(lines, fn) ==
    LET named == {i \in 1..Len(lines) :
                      StartsWith(Strip(lines[i]), DefKeyword \o fn)}
        fallback == {i \in 1..Len(lines) :
                         /\ Contains(lines[i], DefKeyword)
                         /\ Contains(Lower(lines[i]), AnimatorWord)}
        found == IF named # {} THEN named ELSE fallback
    IN IF found = {} THEN 0 ELSE CHOOSE i \in found : \A j \in found : i <= j

\* mutant: the length is checked before the write_frame call
clean_codeLengthFirst(raw, fn) ==
    LET text == Strip(RemoveAll(RemoveAll(raw, DoubleFence), Fence))
        lines == Split(text)
        func_start == FuncStart(lines, fn)
        func_code == JoinLines(SubSeq(lines, func_start, Len(lines)))
    IN IF func_start = 0
       THEN [code |-> None, error |-> "No function found"]
       ELSE IF Len(func_code) < MIN_CODE_LEN
       THEN [code |-> None, error |-> "Code too short"]
       ELSE IF ~Contains(func_code, WriteFrameWord)
       THEN [code |-> None, error |-> "Missing write_frame"]
       ELSE [code |-> ImportHeader \o func_code, error |-> ""]

\* mutant: the write_frame call is looked for in the whole text
clean_codeCallAnywhere(raw, fn) ==
    LET text == Strip(RemoveAll(RemoveAll(raw, DoubleFence), Fence))
        lines == Split(text)
        func_start == FuncStart(lines, fn)
        func_code == JoinLines(SubSeq(lines, func_start, Len(lines)))
    IN IF func_start = 0
       THEN [code |-> None, error |-> "No function found"]
       ELSE IF ~Contains(text, WriteFrameWord)
       THEN [code |-> None, error |-> "Missing write_frame"]
       ELSE IF Len(func_code) < MIN_CODE_LEN
       THEN [code |-> None, error |-> "Code too short"]
       ELSE [code |-> ImportHeader \o func_code, error |-> ""]

\* clean_code(raw_code, func_name); the error "Code too short (<n> chars)"
\* is modelled without its count.
clean_code(raw, fn) ==
    LET text == Strip(RemoveAll(RemoveAll(raw, DoubleFence), Fence))
        lines == Split(text)
        func_start == FuncStart(lines, fn)
        func_code == JoinLines(SubSeq(lines, func_start, Len(lines)))
    IN IF func_start = 0
       THEN [code |-> None, error |-> "No function found"]
       ELSE IF ~Contains(func_code, WriteFrameWord)
       THEN [code |-> None, error |-> "Missing write_frame"]
       ELSE IF Len(func_code) < MIN_CODE_LEN
       THEN [code |-> None, error |-> "Code too short"]
       ELSE [code |-> ImportHeader \o func_code, error |-> ""]

\* ------------------------------------------------------- response texts
\* The lines the texts of the sanitizer specification are made of, for the
\* function named fn: a definition of fn taking the animator, an indented
\* short definition of fn, a definition of another name taking an Animator,
\* a definition that matches neither search, a write_frame call and a
\* write_frame call with a fence marker inside the name.
DefLine(fn) ==
    DefKeyword \o fn \o
    <<"(", "a", "n", "i", "m", "a", "t", "o", "r", ",", " ", "d",
      "u", "r", "a", "t", "i", "o", "n", ")", ":">>
ShortDefLine(fn) ==
    <<" ", " ">> \o DefKeyword \o fn \o
    <<"(", "a", ",", " ", "d", ")", ":">>
FallbackDefLine ==
    <<"d", "e", "f", " ", "s", "h", "o", "w", "(", "A", "n", "i",
      "m", "a", "t", "o", "r", ")", ":">>
OtherDefLine ==
    <<"d", "e", "f", " ", "h", "e", "l", "p", "e", "r", "(", "x",
      ")", ":">>
WriteLine ==
    <<" ", " ", " ", " ", "a", "n", "i", "m", "a", "t", "o", "r",
      ".", "w", "r", "i", "t", "e", "_", "f", "r", "a", "m", "e",
      "(", "'", "H", "e", "l", "l", "o", "'", ",", " ", "'", "W",
      "o", "r", "l", "d", "'", ")">>
SplitWriteLine ==
    <<" ", " ", " ", " ", "a", ".", "w", "r", "i", "t", "e", "_",
      Chr96, Chr96, Chr96, "f", "r", "a", "m", "e", "(", "1", ",", " ",
      "2", ")">>

RawLines(fn) ==
    {DefLine(fn), ShortDefLine(fn), FallbackDefLine, OtherDefLine, WriteLine,
     SplitWriteLine}

\* What precedes and follows the lines in a response: nothing, or an
\* opening fence with its language tag and a closing fence.
RawPrefixes ==
    {<<>>,
     <<Chr96, Chr96, Chr96, "p", "y", "t", "h", "o", "n", "\n">>}
RawSuffixes ==
    {<<>>,
     <<"\n", Chr96, Chr96, Chr96>>}

\* The texts of at most MaxRawLines lines
RawTexts(fn) ==
    {pre \o JoinLines(ls) \o post :
        pre \in RawPrefixes, post \in RawSuffixes,
        ls \in UNION {[1..n -> RawLines(fn)] : n \in 1..MaxRawLines}}

\* The text behind a response of the other specifications: prose around a
\* call for the response the sanitizer rejects, else a definition of the
\* requested function that calls write_frame.
UncleanText ==
    <<"a", "n", "i", "m", "a", "t", "o", "r", ".", "w", "r", "i",
      "t", "e", "_", "f", "r", "a", "m", "e", "(", "'", "N", "o",
      "'", ",", " ", "'", "F", "u", "n", "c", "t", "i", "o", "n",
      "'", ")">>
GoodText(fn) == DefLine(fn) \o <<"\n">> \o WriteLine
ResponseText(r, f) ==
    IF r.kind = "unclean" THEN UncleanText ELSE GoodText(FuncText(f))


\* ------------------------------------------------------- initial state
\* main() after argument parsing, init_check and the construction of State,
\* queue, Generator, KeyboardListener and DisplayController, on an empty
\* output directory.  In continuous mode the generator thread is at the top
\* of its loop and the main thread waits for the first Animation; in
\* single-shot mode the main thread is about to call
\* generate_one_singleshot.
InitCommon ==
    /\ phase = "running"
    /\ queue = <<>>
    /\ gen_count = 0
    /\ requests = 0
    /\ all_errors = <<>>
    /\ code = NoCode
    /\ files = [f \in FuncIds |-> NoCode]
    /\ failed_files = {}
    /\ capture_files = {}
    /\ hpc = "none"
    /\ hwritten = 0
    /\ result = [done |-> FALSE, error |-> "none"]
    /\ frames = <<>>
    /\ deadline_miss = FALSE
    /\ done_read = FALSE
    /\ vr_ret = NoResult
    /\ events = <<>>
    /\ training = <<>>
    /\ data = EmptyData
    /\ outcomes = <<>>
    /\ animation = NoAnimation
    /\ animations = <<>>
    /\ replay_idx = 0
    /\ enqueued = <<>>
    /\ dequeued = <<>>
    /\ constructed = {}
    /\ validated = {}
    /\ state_file = NoFile
    /\ state_lock = FALSE
    /\ spc = "idle"
    /\ write_ok = TRUE
    /\ bookmark_pressed = FALSE
    /\ downvote_pressed = FALSE
    /\ pref_events = <<>>
    /\ press_playing = [b |-> 0, d |-> 0]
    /\ edges = [b |-> 0, d |-> 0]
    /\ fresh = [b |-> 0, d |-> 0]
    /\ pref_lost = [b |-> 0, d |-> 0]
    /\ presses = [b |-> 0, d |-> 0, other |-> 0]
    /\ clean_ret = NoCleanRet

\* The terminal modes of the input device and the value of old_settings
\* before tcgetattr has stored one
PriorMode == "cooked"
NoSettings == "unset"

\* main() has passed init_check, keyboard.start() and display.start() and
\* is in the body of its mode; with a listener the terminal is in cbreak
\* mode and the thread polls stdin.  The loading indicator has ended.
InitStarted ==
    /\ mpc = "body"
    /\ env = "ok"
    /\ isatty = kb_running
    /\ term_mode = IF kb_running THEN "cbreak" ELSE PriorMode
    /\ old_settings = IF kb_running THEN PriorMode ELSE NoSettings
    /\ lpc = IF kb_running THEN "poll" ELSE "none"
    /\ exit_status = NoStatus
    /\ loops = IF kb_running THEN {"keyboard"} ELSE {}
    /\ gen_running = (mode = "continuous")
    /\ disp_running = FALSE
    /\ loading_active = FALSE
    /\ ldpc = "done"
    /\ sent = NoRequest
    /\ cycles = 0

\* The device is the hardware display and preview is off: DisplayController
\* .start builds the DualAnimator without a FrameCapture.
NoPlaybackFiles == [f \in FuncIds |-> {}]
CaptureOff ==
    /\ capture_enabled = FALSE
    /\ frame_capture = {}
    /\ playback_files = NoPlaybackFiles

\* In the pipeline specification stdin is not a terminal: KeyboardListener
\* .start() returns without starting the listener.
Init ==
    /\ InitCommon
    /\ mode \in {"continuous", "singleshot"}
    /\ status_pattern = <<>>
    /\ kb_running = FALSE
    /\ InitStarted
    /\ CaptureOff
    /\ raw_code = <<>>
    /\ gpc = IF mode = "continuous" THEN "loop" ELSE "begin"
    /\ func_name = 0
    /\ attempt = 0
    /\ dpc = IF mode = "continuous" THEN "wait_fill" ELSE "generating"

\* mutant: the loop starts generate_one without looking at the queue
GenLoopNoCheck ==
    /\ phase = "running" /\ mode = "continuous" /\ gpc = "iter"
    /\ requests < MaxRequests
    /\ gen_count' = gen_count + 1
    /\ func_name' = gen_count + 1
    /\ attempt' = 1
    /\ all_errors' = <<>>
    /\ sent' = NoRequest
    /\ gpc' = "request"
    /\ UNCHANGED <<procVars, mode, phase, saveVars, kbVars, textVars, queue, requests, code, diskVars, vrVars,
                   stateVars, dispVars, ghostVars>>

\* ------------------------------------------------------------ Generator
\* Generator._generate_loop, the body of one iteration: start generate_one
\* when the queue holds fewer than QUEUE_SIZE Animations, else sleep.
\* generate_one begins by counting the sequence and drawing its function id.
GenLoop ==
    /\ phase = "running" /\ mode = "continuous" /\ gpc = "iter"
    /\ requests < MaxRequests
    /\ IF qsize(queue) < QUEUE_SIZE
       THEN /\ gen_count' = gen_count + 1
            /\ func_name' = gen_count + 1
            /\ attempt' = 1
            /\ all_errors' = <<>>
            /\ sent' = NoRequest
            /\ gpc' = "request"
       ELSE /\ gpc' = "sleep"
            /\ UNCHANGED <<gen_count, func_name, attempt, all_errors, sent>>
    /\ UNCHANGED <<procVars, mode, phase, saveVars, kbVars, textVars, queue, requests, code, diskVars, vrVars,
                   stateVars, dispVars, ghostVars>>

\* mutant: the loop begins an iteration without looking at the flag
GenLoopCheckNoFlag ==
    /\ phase = "running" /\ mode = "continuous" /\ gpc = "loop"
    /\ gpc' = "iter"
    /\ UNCHANGED <<lifeVars, mode, phase, saveVars, kbVars, textVars, queue,
                   gen_count, requests, func_name, attempt, all_errors, code,
                   diskVars, vrVars, stateVars, dispVars, ghostVars>>

\* Generator._generate_loop: "while self.running" finds the flag set and
\* an iteration begins
GenLoopCheck ==
    /\ phase = "running" /\ mode = "continuous" /\ gpc = "loop"
    /\ gen_running
    /\ gpc' = "iter"
    /\ UNCHANGED <<lifeVars, mode, phase, saveVars, kbVars, textVars, queue,
                   gen_count, requests, func_name, attempt, all_errors, code,
                   diskVars, vrVars, stateVars, dispVars, ghostVars>>

\* Generator._generate_loop: "while self.running" finds the flag cleared
\* by stop() and the thread ends
GenLoopExit ==
    /\ phase = "running" /\ mode = "continuous" /\ gpc = "loop"
    /\ ~gen_running
    /\ gpc' = "stopped"
    /\ UNCHANGED <<lifeVars, mode, phase, saveVars, kbVars, textVars, queue,
                   gen_count, requests, func_name, attempt, all_errors, code,
                   diskVars, vrVars, stateVars, dispVars, ghostVars>>

\* time.sleep(1) of the loop ends
GenWake ==
    /\ phase = "running" /\ gpc = "sleep"
    /\ gpc' = "loop"
    /\ UNCHANGED <<lifeVars, mode, phase, saveVars, kbVars, textVars, queue, gen_count, requests, func_name, attempt,
                   all_errors, code, diskVars, vrVars, stateVars, dispVars,
                   ghostVars>>

\* generate_one_singleshot begins: the main thread draws the function id
SingleshotBegin ==
    /\ phase = "running" /\ mode = "singleshot" /\ gpc = "begin"
    /\ func_name' = 1
    /\ attempt' = 1
    /\ all_errors' = <<>>
    /\ sent' = NoRequest
    /\ gpc' = "request"
    /\ UNCHANGED <<procVars, mode, phase, saveVars, kbVars, textVars, queue, gen_count, requests, code, diskVars,
                   vrVars, stateVars, dispVars, ghostVars>>

ErrorEntry(tag, n) == [tag |-> tag, attempt |-> n]

\* mutant: the loop does not advance its attempt number
FailAttemptSameNumber(entry) ==
    /\ all_errors' = Append(all_errors, entry)
    /\ code' = NoCode
    /\ IF Len(all_errors) + 1 < MAX_RETRIES
       THEN attempt' = attempt /\ gpc' = "request"
       ELSE attempt' = attempt /\ gpc' = "exhausted"

\* all_errors.append(...); continue -- the next iteration of the retry loop,
\* or the code after the loop when the attempts are used up
FailAttempt(entry) ==
    /\ all_errors' = Append(all_errors, entry)
    /\ code' = NoCode
    /\ IF attempt < MAX_RETRIES
       THEN attempt' = attempt + 1 /\ gpc' = "request"
       ELSE attempt' = attempt /\ gpc' = "exhausted"

\* mutant: the prompt names every accumulated error
RetryContextAll(errs, n) == IF n > 1 THEN errs ELSE <<>>

\* generate_code: the errors named in the prompt of attempt n, none for
\* the first attempt, else prev_errors[-3:]
RetryContext(errs, n) ==
    IF n > 1
    THEN SubSeq(errs, IF Len(errs) > 3 THEN Len(errs) - 2 ELSE 1, Len(errs))
    ELSE <<>>

\* generate_code and the "if not code" branch of the retry loop, for the
\* response r whose text is raw: the request fails (timeout, transport
\* error, empty response), or clean_code rejects the text (the raw response
\* is kept in a failed_ file), or cleaned code comes back.
GenerateCode(r, raw) ==
    /\ phase = "running" /\ gpc = "request"
    /\ requests < MaxRequests
    /\ requests' = requests + 1
    /\ sent' = [attempt |-> attempt, errors |-> RetryContext(all_errors, attempt)]
    /\ IF r.kind = "request_failed"
       THEN /\ FailAttempt(ErrorEntry("Gen", attempt))
            /\ UNCHANGED <<failed_files, clean_ret>>
       ELSE /\ clean_ret' = clean_code(raw, FuncText(func_name))
            /\ IF clean_ret'.code = None
               THEN /\ FailAttempt(ErrorEntry("Gen", attempt))
                    /\ failed_files' = failed_files \cup {<<func_name, attempt>>}
               ELSE /\ code' = [kind |-> r.kind, nframes |-> r.nframes,
                                ver |-> <<func_name, attempt>>]
                    /\ gpc' = "save"
                    /\ UNCHANGED <<attempt, all_errors, failed_files>>
    /\ UNCHANGED <<procVars, mode, phase, saveVars, kbVars, raw_code, queue, gen_count,
                   func_name, files, capture_files, vrVars, stateVars,
                   dispVars, ghostVars>>

GenRequest(r) == GenerateCode(r, ResponseText(r, func_name))

\* code_file.write_text(code)
GenSaveCode(ok) ==
    /\ phase = "running" /\ gpc = "save"
    /\ IF ok
       THEN /\ files' = [files EXCEPT ![func_name] = code]
            /\ gpc' = "syntax"
            /\ UNCHANGED <<attempt, all_errors, code>>
       ELSE /\ FailAttempt(ErrorEntry("Save", 0))
            /\ UNCHANGED files
    /\ UNCHANGED <<lifeVars, mode, phase, saveVars, kbVars, textVars, queue, gen_count, requests, func_name,
                   failed_files, capture_files, vrVars, stateVars, dispVars,
                   ghostVars>>

\* validate_syntax(code)
validate_syntax(c) == c.kind # "badsyntax"

\* mutant: the result of the syntax check is ignored
GenSyntaxIgnored ==
    /\ phase = "running" /\ gpc = "syntax"
    /\ gpc' = "bind"
    /\ UNCHANGED <<lifeVars, mode, phase, saveVars, kbVars, textVars, queue,
                   gen_count, requests, func_name, attempt, all_errors, code,
                   diskVars, vrVars, stateVars, dispVars, ghostVars>>

GenSyntax ==
    /\ phase = "running" /\ gpc = "syntax"
    /\ IF validate_syntax(code)
       THEN gpc' = "bind" /\ UNCHANGED <<attempt, all_errors, code>>
       ELSE FailAttempt(ErrorEntry("Syntax", 0))
    /\ UNCHANGED <<lifeVars, mode, phase, saveVars, kbVars, textVars, queue, gen_count, requests, func_name,
                   diskVars, vrVars, stateVars, dispVars, ghostVars>>

\* exec(code, namespace) and "func_name in namespace"
ExecRaises(c) == c.kind \in {"badsyntax", "bindraise"}
Defines(c) == c.kind \in RunKinds

GenBind ==
    /\ phase = "running" /\ gpc = "bind"
    /\ IF ExecRaises(code)
       THEN FailAttempt(ErrorEntry("Compile", 0))
       ELSE IF ~Defines(code)
       THEN FailAttempt(ErrorEntry("Function missing", 0))
       ELSE gpc' = "vr_start" /\ UNCHANGED <<attempt, all_errors, code>>
    /\ UNCHANGED <<lifeVars, mode, phase, saveVars, kbVars, textVars, queue, gen_count, requests, func_name,
                   diskVars, vrVars, stateVars, dispVars, ghostVars>>


\* ----------------------------------------------------- validate_runtime
\* The caller builds the synthetic display, the capture and the result
\* dict and starts the helper thread.
VRStart ==
    /\ phase = "running" /\ gpc = "vr_start"
    /\ hpc' = "running"
    /\ hwritten' = 0
    /\ result' = [done |-> FALSE, error |-> "none"]
    /\ frames' = <<>>
    /\ deadline_miss' = FALSE
    /\ done_read' = FALSE
    /\ vr_ret' = NoResult
    /\ gpc' = "vr_join"
    /\ UNCHANGED <<lifeVars, mode, phase, saveVars, kbVars, textVars, queue, gen_count, requests, func_name, attempt,
                   all_errors, code, diskVars, stateVars, dispVars, ghostVars>>

\* mutant: the capture keeps only the latest frame
HelperWriteFrameKeepLast ==
    /\ phase = "running" /\ hpc = "running"
    /\ hwritten < code.nframes
    /\ frames' = <<CapturedFrame(RawFrame(hwritten + 1))>>
    /\ hwritten' = hwritten + 1
    /\ UNCHANGED <<lifeVars, mode, phase, saveVars, kbVars, textVars, queue, genVars, diskVars, hpc, result,
                   deadline_miss, done_read, vr_ret, stateVars, dispVars,
                   ghostVars>>

\* mutant: write_frame is not intercepted, nothing is captured
HelperWriteFrameNoCapture ==
    /\ phase = "running" /\ hpc = "running"
    /\ hwritten < code.nframes
    /\ hwritten' = hwritten + 1
    /\ UNCHANGED <<lifeVars, mode, phase, saveVars, kbVars, textVars, queue, genVars, diskVars, hpc, result, frames,
                   deadline_miss, done_read, vr_ret, stateVars, dispVars,
                   ghostVars>>

\* run_with_capture: the callable calls write_frame on the capture's
\* animator, which appends the normalized frame to capture.frames.
HelperWriteFrame ==
    /\ phase = "running" /\ hpc = "running"
    /\ hwritten < code.nframes
    /\ frames' = Append(frames, CapturedFrame(RawFrame(hwritten + 1)))
    /\ hwritten' = hwritten + 1
    /\ UNCHANGED <<lifeVars, mode, phase, saveVars, kbVars, textVars, queue, genVars, diskVars, hpc, result,
                   deadline_miss, done_read, vr_ret, stateVars, dispVars,
                   ghostVars>>

\* run_with_capture: the callable returns (result['done'] = True) or raises
\* (result['error'] = e); a hanging callable does neither.
HelperFinish ==
    /\ phase = "running" /\ hpc = "running"
    /\ hwritten = code.nframes
    /\ code.kind # "hang"
    /\ IF code.kind = "return"
       THEN /\ result' = [result EXCEPT !.done = TRUE]
            /\ hpc' = "returned"
       ELSE /\ result' = [result EXCEPT !.error =
                            IF code.kind = "raise_index" THEN "IndexError"
                                                         ELSE "Exception"]
            /\ hpc' = "raised"
    /\ UNCHANGED <<lifeVars, mode, phase, saveVars, kbVars, textVars, queue, genVars, diskVars, hwritten, frames,
                   deadline_miss, done_read, vr_ret, stateVars, dispVars,
                   ghostVars>>

\* timeout_thread.join(timeout=2.0) returns because the helper has ended
VRJoinEnded ==
    /\ phase = "running" /\ gpc = "vr_join"
    /\ hpc \in {"returned", "raised"}
    /\ gpc' = "vr_check"
    /\ UNCHANGED <<lifeVars, mode, phase, saveVars, kbVars, textVars, queue, gen_count, requests, func_name, attempt,
                   all_errors, code, diskVars, vrVars, stateVars, dispVars,
                   ghostVars>>

\* timeout_thread.join(timeout=2.0) returns because the 2 s have passed and
\* the helper is still running
VRJoinTimeout ==
    /\ phase = "running" /\ gpc = "vr_join"
    /\ hpc = "running"
    /\ deadline_miss' = TRUE
    /\ gpc' = "vr_check"
    /\ UNCHANGED <<lifeVars, mode, phase, saveVars, kbVars, textVars, queue, gen_count, requests, func_name, attempt,
                   all_errors, code, diskVars, hpc, hwritten, result, frames,
                   done_read, vr_ret, stateVars, dispVars, ghostVars>>

\* mutant: the completion flag is not consulted, only the error
VRClassifyIgnoreDone(res, capture) ==
    IF res.error # "none"
    THEN [valid |-> FALSE, error |-> "Runtime crash", capture |-> <<>>,
          has_capture |-> FALSE]
    ELSE [valid |-> TRUE, error |-> "", capture |-> capture,
          has_capture |-> TRUE]

\* What validate_runtime returns from the result dict it reads after the
\* join: the timeout error when result['done'] is false, else the re-raised
\* helper exception caught by its own except clauses, else success with the
\* capture.
VRClassify(res, capture) ==
    IF ~res.done
    THEN [valid |-> FALSE, error |-> "Timeout", capture |-> <<>>,
          has_capture |-> FALSE]
    ELSE IF res.error # "none"
    THEN [valid |-> FALSE,
          error |-> IF res.error = "IndexError" THEN "IndexError"
                                                ELSE "Runtime crash",
          capture |-> <<>>, has_capture |-> FALSE]
    ELSE [valid |-> TRUE, error |-> "", capture |-> capture,
          has_capture |-> TRUE]

\* mutant: the caller ends the helper that missed the deadline
VRCheckTerminates ==
    /\ phase = "running" /\ gpc = "vr_check"
    /\ done_read' = result.done
    /\ vr_ret' = VRClassify(result, frames)
    /\ hpc' = IF hpc = "running" THEN "none" ELSE hpc
    /\ validated' = IF VRClassify(result, frames).valid
                    THEN validated \cup {code.ver} ELSE validated
    /\ gpc' = "vr_ret"
    /\ UNCHANGED <<lifeVars, mode, phase, saveVars, kbVars, textVars, queue, gen_count, requests, func_name, attempt,
                   all_errors, code, diskVars, hwritten, result, frames,
                   deadline_miss, stateVars, dispVars, enqueued, dequeued,
                   constructed>>

\* The caller reads the result dict and returns; a helper that is still
\* running is abandoned (it is a daemon thread nobody waits for again).
VRCheck ==
    /\ phase = "running" /\ gpc = "vr_check"
    /\ done_read' = result.done
    /\ vr_ret' = VRClassify(result, frames)
    /\ hpc' = IF hpc = "running" THEN "abandoned" ELSE hpc
    /\ validated' = IF VRClassify(result, frames).valid
                    THEN validated \cup {code.ver} ELSE validated
    /\ gpc' = "vr_ret"
    /\ UNCHANGED <<lifeVars, mode, phase, saveVars, kbVars, textVars, queue, gen_count, requests, func_name, attempt,
                   all_errors, code, diskVars, hwritten, result, frames,
                   deadline_miss, stateVars, dispVars, enqueued, dequeued,
                   constructed>>

\* "if not valid_runtime: all_errors.append(Runtime: ...); continue"
GenAfterValidate ==
    /\ phase = "running" /\ gpc = "vr_ret"
    /\ IF ~vr_ret.valid
       THEN FailAttempt(ErrorEntry("Runtime", 0))
       ELSE gpc' = "persist" /\ UNCHANGED <<attempt, all_errors, code>>
    /\ UNCHANGED <<lifeVars, mode, phase, saveVars, kbVars, textVars, queue, gen_count, requests, func_name,
                   diskVars, vrVars, stateVars, dispVars, ghostVars>>

\* frame_capture.save_jsonl(...) of the validation frames; an exception is
\* caught by the "except Exception" of the attempt
GenPersistFrames(ok) ==
    /\ phase = "running" /\ gpc = "persist"
    /\ IF ok
       THEN /\ capture_files' = capture_files \cup {func_name}
            /\ gpc' = "construct"
            /\ UNCHANGED <<attempt, all_errors, code>>
       ELSE /\ FailAttempt(ErrorEntry("Compile", 0))
            /\ UNCHANGED capture_files
    /\ UNCHANGED <<lifeVars, mode, phase, saveVars, kbVars, textVars, queue, gen_count, requests, func_name, files,
                   failed_files, vrVars, stateVars, dispVars, ghostVars>>

\* animation = Animation(func_name, desc, code, namespace[func_name])
Animation(f, c) == [func_name |-> f, code |-> c]

GenConstruct ==
    /\ phase = "running" /\ gpc = "construct"
    /\ constructed' = constructed \cup {Animation(func_name, code)}
    /\ gpc' = "enqueue"
    /\ UNCHANGED <<lifeVars, mode, phase, saveVars, kbVars, textVars, queue, gen_count, requests, func_name, attempt,
                   all_errors, code, diskVars, vrVars, stateVars, dispVars,
                   enqueued, dequeued, validated>>

\* self.queue.put(animation): blocks while the queue is full
GenEnqueue ==
    /\ phase = "running" /\ gpc = "enqueue"
    /\ ~QueueFull(queue)
    /\ queue' = QueuePut(queue, Animation(func_name, code))
    /\ enqueued' = Append(enqueued, Animation(func_name, code))
    /\ gpc' = "post"
    /\ UNCHANGED <<lifeVars, mode, phase, saveVars, kbVars, textVars, gen_count, requests, func_name, attempt,
                   all_errors, code, diskVars, vrVars, stateVars, dispVars,
                   dequeued, constructed, validated>>

\* generate_one returns to its caller
ReturnPc == IF mode = "continuous" THEN "loop" ELSE "returned"

\* The steps after the put: analyze_code, telemetry.log_generation,
\* telemetry.log_training_example, state.save(success), return.  fail_at
\* names the step that raises, if any; the exception is caught by the
\* "except Exception" of the attempt, which records a Compile error and
\* goes on with the next attempt.
PostSteps == {"none", "analyze_code", "log_generation", "log_training_example"}

GenPost(fail_at, w) ==
    /\ phase = "running" /\ gpc = "post"
    /\ events' = IF fail_at \in {"none", "log_training_example"}
                 THEN Append(events, [generation_id |-> func_name,
                                      success |-> TRUE, attempt |-> attempt,
                                      error |-> <<>>])
                 ELSE events
    /\ training' = IF fail_at = "none"
                   THEN Append(training, code.ver) ELSE training
    /\ IF fail_at = "none"
       THEN /\ data' = StateSave(data, func_name, "success", <<>>)
            /\ state_file' = SnapshotWrite(state_file, data', w)
            /\ outcomes' = Append(outcomes, Outcome(func_name, "success", <<>>))
            /\ gpc' = ReturnPc
            /\ attempt' = 0
            /\ all_errors' = <<>>
            /\ code' = NoCode
       ELSE /\ FailAttempt(ErrorEntry("Compile", 0))
            /\ UNCHANGED <<data, outcomes, state_file>>
    /\ UNCHANGED <<lifeVars, mode, phase, state_lock, spc, write_ok, kbVars, textVars,
                   queue, gen_count, requests, func_name, diskVars, vrVars,
                   status_pattern, dispVars, ghostVars>>

\* mutant: the first three errors of the sequence are reported
FinalErrorFirst3(errs) == JoinErrors(SubSeq(errs, 1, Min(Len(errs), 3)))

\* final_error = '\n'.join(all_errors[-3:])
FinalError(errs) == JoinErrors(LastN(errs, 3))

\* mutant: the exhausted budget is logged and not recorded in State
GenExhaustedUnrecorded(w) ==
    /\ phase = "running" /\ gpc = "exhausted"
    /\ events' = Append(events, [generation_id |-> func_name,
                                 success |-> FALSE, attempt |-> MAX_RETRIES,
                                 error |-> FinalError(all_errors)])
    /\ gpc' = ReturnPc
    /\ attempt' = 0
    /\ all_errors' = <<>>
    /\ code' = NoCode
    /\ UNCHANGED <<lifeVars, mode, phase, saveVars, kbVars, textVars,
                   queue, gen_count, requests, func_name, diskVars, vrVars,
                   training, status_pattern, dispVars, ghostVars, data,
                   outcomes>>

\* After the retry loop: the failure event with final_error,
\* state.save(failure), return.
GenExhausted(w) ==
    /\ phase = "running" /\ gpc = "exhausted"
    /\ events' = Append(events, [generation_id |-> func_name,
                                 success |-> FALSE, attempt |-> MAX_RETRIES,
                                 error |-> FinalError(all_errors)])
    /\ data' = StateSave(data, func_name, "failure", FinalError(all_errors))
    /\ state_file' = SnapshotWrite(state_file, data', w)
    /\ outcomes' = Append(outcomes,
                          Outcome(func_name, "failure", FinalError(all_errors)))
    /\ gpc' = ReturnPc
    /\ attempt' = 0
    /\ all_errors' = <<>>
    /\ code' = NoCode
    /\ UNCHANGED <<lifeVars, mode, phase, state_lock, spc, write_ok, kbVars, textVars,
                   queue, gen_count, requests, func_name, diskVars, vrVars,
                   training, status_pattern, dispVars, ghostVars>>


\* ---------------------------------------------------- DisplayController
\* main, continuous mode: "while animation_queue.qsize() < 1: sleep", then
\* "display.loading_active = False" and a join that returns at once when
\* the loading thread has ended, then display.run()
MainWaitFill ==
    /\ phase = "running" /\ mode = "continuous" /\ dpc = "wait_fill"
    /\ qsize(queue) >= 1
    /\ ldpc = "done"
    /\ dpc' = "get"
    /\ disp_running' = TRUE
    /\ UNCHANGED <<coreVars, sent, gen_running, mode, phase, saveVars, kbVars, textVars, queue, genVars, diskVars, vrVars, stateVars,
                   animation, animations, replay_idx, ghostVars>>

\* DisplayController.run: animation = self.queue.get(timeout=20)
DispGet ==
    /\ phase = "running" /\ dpc = "get" /\ disp_running
    /\ queue # <<>>
    /\ animation' = QueueGetItem(queue)
    /\ queue' = QueueGetRest(queue)
    /\ dequeued' = Append(dequeued, QueueGetItem(queue))
    /\ dpc' = "play"
    /\ UNCHANGED <<lifeVars, mode, phase, saveVars, kbVars, textVars, genVars, diskVars, vrVars, stateVars,
                   animations, replay_idx, enqueued, constructed, validated>>

\* DisplayController.run: the get times out on an empty queue (queue.Empty)
DispQueueEmpty ==
    /\ phase = "running" /\ dpc = "get" /\ disp_running
    /\ queue = <<>>
    /\ dpc' = "placeholder"
    /\ UNCHANGED <<lifeVars, mode, phase, saveVars, kbVars, textVars, queue, genVars, diskVars, vrVars, stateVars,
                   animation, animations, replay_idx, ghostVars>>

\* show_placeholder returns; the loop polls the queue again
DispPlaceholder ==
    /\ phase = "running" /\ dpc = "placeholder"
    /\ dpc' = "get"
    /\ UNCHANGED <<lifeVars, mode, phase, saveVars, kbVars, textVars, queue, genVars, diskVars, vrVars, stateVars,
                   animation, animations, replay_idx, ghostVars>>

\* FrameCapture._capturing_write_frame on the animator of the live
\* display: with capture on, every frame written through it is appended
\* to the one list of the capture that DualAnimator built at start; the
\* model keeps who wrote the frames the list holds: the loading indicator,
\* the placeholder or the playback of a function id.
Captured(writer) ==
    IF capture_enabled THEN frame_capture \cup {writer} ELSE frame_capture

\* show_placeholder cycle by cycle.  "for i in range(60)"
PLACEHOLDER_CYCLES == 60

\* mutant: the indicator goes on until the queue is non-empty
PlaceholderCycleUnbounded(ok) ==
    /\ phase = "running" /\ dpc = "placeholder"
    /\ frame_capture' = Captured(<<"placeholder", 0>>)
    /\ queue = <<>>
    /\ IF ok
       THEN cycles' = 0 /\ dpc' = dpc
       ELSE cycles' = 0 /\ dpc' = "get"
    /\ UNCHANGED <<mode, phase, saveVars, kbVars, textVars, queue, genVars,
                   diskVars, vrVars, stateVars, animation, animations,
                   replay_idx, ghostVars, mpc, env, isatty, term_mode,
                   old_settings, lpc, exit_status, loops, loadVars, sent,
                   capture_enabled, playback_files, runVars>>

\* show_placeholder, one cycle on an empty queue: the indicator frame is
\* written and the thread sleeps 0.5 s; an exception of the write is
\* swallowed by the bare except and show_placeholder returns
PlaceholderCycle(ok) ==
    /\ phase = "running" /\ dpc = "placeholder"
    /\ frame_capture' = Captured(<<"placeholder", 0>>)
    /\ cycles < PLACEHOLDER_CYCLES
    /\ queue = <<>>
    /\ IF ok
       THEN cycles' = cycles + 1 /\ dpc' = dpc
       ELSE cycles' = 0 /\ dpc' = "get"
    /\ UNCHANGED <<mode, phase, saveVars, kbVars, textVars, queue, genVars,
                   diskVars, vrVars, stateVars, animation, animations,
                   replay_idx, ghostVars, mpc, env, isatty, term_mode,
                   old_settings, lpc, exit_status, loops, loadVars, sent,
                   capture_enabled, playback_files, runVars>>

\* show_placeholder: the loop ends by "break" on a non-empty queue or
\* after the last cycle; the display is cleared and run() goes on with
\* the next queue.get
PlaceholderEnd ==
    /\ phase = "running" /\ dpc = "placeholder"
    /\ queue # <<>> \/ cycles = PLACEHOLDER_CYCLES
    /\ cycles' = 0
    /\ dpc' = "get"
    /\ frame_capture' = frame_capture
    /\ UNCHANGED <<mode, phase, saveVars, kbVars, textVars, queue, genVars,
                   diskVars, vrVars, stateVars, animation, animations,
                   replay_idx, ghostVars, mpc, env, isatty, term_mode,
                   old_settings, lpc, exit_status, loops, loadVars, sent,
                   capture_enabled, playback_files, runVars>>

\* run(): "if frame_cap and len(frame_cap.get_frames()) > 0" the frames
\* the capture holds are written to <func_name>_playback.jsonl
SavePlayback(pf, f, held) ==
    IF held # {} THEN [pf EXCEPT ![f] = held] ELSE pf

\* animation.run(...) and the feedback checks end, normally or with an
\* exception that run() catches; the finally clause is next.  With
\* capture on the frames of the callable are captured and saved.  Without a
\* listener no flag is ever set and both checks return False.
DispPlay ==
    /\ phase = "running" /\ dpc = "play"
    /\ ~kb_running
    /\ dpc' = "clear"
    /\ frame_capture' = Captured(<<"playback", animation.func_name>>)
    /\ playback_files' = SavePlayback(playback_files, animation.func_name,
                                    frame_capture')
    /\ UNCHANGED <<mode, phase, saveVars, kbVars, textVars, queue, genVars, diskVars, vrVars, stateVars,
                   animation, animations, replay_idx, ghostVars, mpc, env,
                   isatty, term_mode, old_settings, lpc, exit_status, loops,
                   loadVars, sent, cycles, capture_enabled, runVars>>

\* ---------------------------------------------- keyboard and feedback
\* The characters the listener can read: the two keys, their capitals and a
\* key it ignores.
KeyChars == {"b", "B", "d", "D", "x"}

\* The positions of DisplayController.run between the return of
\* animation.run and the finally clause
FeedbackPcs == {"check_b", "clear_b", "log_b", "check_d", "clear_d", "log_d"}

\* The animation on the display: from the call of animation.run to the
\* finally clause of its iteration; 0 when none is
Playing == IF dpc \in {"play"} \cup FeedbackPcs THEN animation.func_name ELSE 0

Bump(r, k) == [r EXCEPT ![k] = @ + 1]

\* mutant: the downvote key sets the bookmark flag as well
KeyPressBoth(ch) ==
    /\ phase = "running" /\ kb_running /\ lpc = "poll"
    /\ presses.b + presses.d + presses.other < MaxPresses
    /\ LET key == LowerChar(ch)
       IN IF key = "b"
          THEN /\ bookmark_pressed' = TRUE
               /\ presses' = Bump(presses, "b")
               /\ edges' = IF bookmark_pressed THEN edges ELSE Bump(edges, "b")
               /\ fresh' = IF bookmark_pressed /\ dpc # "clear_b"
                           THEN fresh ELSE Bump(fresh, "b")
               /\ press_playing' = IF bookmark_pressed THEN press_playing
                                   ELSE [press_playing EXCEPT !.b = Playing]
               /\ UNCHANGED downvote_pressed
          ELSE IF key = "d"
          THEN /\ downvote_pressed' = TRUE
               /\ presses' = Bump(presses, "d")
               /\ edges' = IF downvote_pressed THEN edges ELSE Bump(edges, "d")
               /\ fresh' = IF downvote_pressed /\ dpc # "clear_d"
                           THEN fresh ELSE Bump(fresh, "d")
               /\ press_playing' = IF downvote_pressed THEN press_playing
                                   ELSE [press_playing EXCEPT !.d = Playing]
               /\ bookmark_pressed' = TRUE
          ELSE /\ presses' = Bump(presses, "other")
               /\ UNCHANGED <<bookmark_pressed, downvote_pressed, edges,
                              fresh, press_playing>>
    /\ UNCHANGED <<lifeVars, mode, phase, saveVars, textVars, kb_running, pref_events,
                   pref_lost, queue, genVars, diskVars, vrVars, stateVars,
                   dispVars, ghostVars>>

\* KeyboardListener._listen reads one character: ch.lower() is compared
\* with 'b' and 'd' and the flag of the key is set.
KeyPress(ch) ==
    /\ phase = "running" /\ kb_running /\ lpc = "poll"
    /\ presses.b + presses.d + presses.other < MaxPresses
    /\ LET key == LowerChar(ch)
       IN IF key = "b"
          THEN /\ bookmark_pressed' = TRUE
               /\ presses' = Bump(presses, "b")
               /\ edges' = IF bookmark_pressed THEN edges ELSE Bump(edges, "b")
               /\ fresh' = IF bookmark_pressed /\ dpc # "clear_b"
                           THEN fresh ELSE Bump(fresh, "b")
               /\ press_playing' = IF bookmark_pressed THEN press_playing
                                   ELSE [press_playing EXCEPT !.b = Playing]
               /\ UNCHANGED downvote_pressed
          ELSE IF key = "d"
          THEN /\ downvote_pressed' = TRUE
               /\ presses' = Bump(presses, "d")
               /\ edges' = IF downvote_pressed THEN edges ELSE Bump(edges, "d")
               /\ fresh' = IF downvote_pressed /\ dpc # "clear_d"
                           THEN fresh ELSE Bump(fresh, "d")
               /\ press_playing' = IF downvote_pressed THEN press_playing
                                   ELSE [press_playing EXCEPT !.d = Playing]
               /\ UNCHANGED bookmark_pressed
          ELSE /\ presses' = Bump(presses, "other")
               /\ UNCHANGED <<bookmark_pressed, downvote_pressed, edges,
                              fresh, press_playing>>
    /\ UNCHANGED <<lifeVars, mode, phase, saveVars, textVars, kb_running, pref_events,
                   pref_lost, queue, genVars, diskVars, vrVars, stateVars,
                   dispVars, ghostVars>>

\* mutant: the exception of the callable leaves the loop of run()
DispRunFatal(ok) ==
    /\ phase = "running" /\ dpc = "play"
    /\ dpc' = IF ok THEN "check_b" ELSE "off"
    /\ UNCHANGED <<lifeVars, mode, phase, saveVars, kbVars, textVars, queue, genVars,
                   diskVars, vrVars, stateVars, animation, animations,
                   replay_idx, ghostVars>>

\* DisplayController.run: animation.run(...) returns and the feedback
\* checks follow, or it raises and the except clause follows
DispRun(ok) ==
    /\ phase = "running" /\ dpc = "play"
    /\ dpc' = IF ok THEN "check_b" ELSE "except"
    /\ UNCHANGED <<lifeVars, mode, phase, saveVars, kbVars, textVars, queue, genVars,
                   diskVars, vrVars, stateVars, animation, animations,
                   replay_idx, ghostVars>>

\* DisplayController.run, "except Exception as e": the playback error is
\* logged; the finally clause is next
DispExcept ==
    /\ phase = "running" /\ dpc = "except"
    /\ dpc' = "clear"
    /\ UNCHANGED <<lifeVars, mode, phase, saveVars, kbVars, textVars, queue, genVars,
                   diskVars, vrVars, stateVars, animation, animations,
                   replay_idx, ghostVars>>

\* mutant: the read reports a press whatever the flag holds
DispCheckBookmarkAlways ==
    /\ phase = "running" /\ dpc = "check_b"
    /\ dpc' = "clear_b"
    /\ UNCHANGED <<lifeVars, mode, phase, saveVars, kbVars, textVars, queue, genVars,
                   diskVars, vrVars, stateVars, animation, animations,
                   replay_idx, ghostVars>>

\* check_and_clear: "if self.bookmark_pressed:" reads the flag
DispCheckBookmark ==
    /\ phase = "running" /\ dpc = "check_b"
    /\ dpc' = IF bookmark_pressed THEN "clear_b" ELSE "check_d"
    /\ UNCHANGED <<lifeVars, mode, phase, saveVars, kbVars, textVars, queue, genVars,
                   diskVars, vrVars, stateVars, animation, animations,
                   replay_idx, ghostVars>>

\* mutant: the flag is left set
DispClearBookmarkKeeps ==
    /\ phase = "running" /\ dpc = "clear_b"
    /\ dpc' = "log_b"
    /\ UNCHANGED <<lifeVars, mode, phase, saveVars, kbVars, textVars, queue, genVars,
                   diskVars, vrVars, stateVars, animation, animations,
                   replay_idx, ghostVars>>

\* check_and_clear: "self.bookmark_pressed = False; return True"
DispClearBookmark ==
    /\ phase = "running" /\ dpc = "clear_b"
    /\ bookmark_pressed' = FALSE
    /\ dpc' = "log_b"
    /\ UNCHANGED <<lifeVars, mode, phase, saveVars, textVars, kb_running,
                   downvote_pressed, pref_events, press_playing, edges, fresh,
                   pref_lost, presses, queue, genVars, diskVars, vrVars,
                   stateVars, animation, animations, replay_idx, ghostVars>>

\* The record bookmark_animation and downvote_animation append
PrefEvent(kind, a) == [message |-> kind, generation_id |-> a.func_name]

\* bookmark_animation(animation): the record is appended to events.jsonl,
\* or the write raises and the exception is logged
DispBookmark(ok) ==
    /\ phase = "running" /\ dpc = "log_b"
    /\ IF ok
       THEN /\ pref_events' = Append(pref_events, PrefEvent("bookmark", animation))
            /\ UNCHANGED pref_lost
       ELSE /\ pref_lost' = Bump(pref_lost, "b")
            /\ UNCHANGED pref_events
    /\ dpc' = "check_d"
    /\ UNCHANGED <<lifeVars, mode, phase, saveVars, textVars, kb_running,
                   bookmark_pressed, downvote_pressed, press_playing, edges,
                   fresh, presses, queue, genVars, diskVars, vrVars,
                   stateVars, animation, animations, replay_idx, ghostVars>>

\* check_and_clear_downvote: "if self.downvote_pressed:" reads the flag;
\* without a hit the capture is saved and the finally clause follows
DispCheckDownvote ==
    /\ phase = "running" /\ dpc = "check_d"
    /\ dpc' = IF downvote_pressed THEN "clear_d" ELSE "clear"
    /\ UNCHANGED <<lifeVars, mode, phase, saveVars, kbVars, textVars, queue, genVars,
                   diskVars, vrVars, stateVars, animation, animations,
                   replay_idx, ghostVars>>

\* check_and_clear_downvote: "self.downvote_pressed = False; return True"
DispClearDownvote ==
    /\ phase = "running" /\ dpc = "clear_d"
    /\ downvote_pressed' = FALSE
    /\ dpc' = "log_d"
    /\ UNCHANGED <<lifeVars, mode, phase, saveVars, textVars, kb_running,
                   bookmark_pressed, pref_events, press_playing, edges, fresh,
                   pref_lost, presses, queue, genVars, diskVars, vrVars,
                   stateVars, animation, animations, replay_idx, ghostVars>>

\* downvote_animation(animation), then the capture and the finally clause
DispDownvote(ok) ==
    /\ phase = "running" /\ dpc = "log_d"
    /\ IF ok
       THEN /\ pref_events' = Append(pref_events, PrefEvent("downvote", animation))
            /\ UNCHANGED pref_lost
       ELSE /\ pref_lost' = Bump(pref_lost, "d")
            /\ UNCHANGED pref_events
    /\ dpc' = "clear"
    /\ UNCHANGED <<lifeVars, mode, phase, saveVars, textVars, kb_running,
                   bookmark_pressed, downvote_pressed, press_playing, edges,
                   fresh, presses, queue, genVars, diskVars, vrVars,
                   stateVars, animation, animations, replay_idx, ghostVars>>

\* finally: self.animator.clear_display(); the loop goes on
DispClear ==
    /\ phase = "running" /\ dpc = "clear"
    /\ dpc' = "get"
    /\ animation' = NoAnimation
    /\ UNCHANGED <<lifeVars, mode, phase, saveVars, kbVars, textVars, queue, genVars, diskVars, vrVars, stateVars,
                   animations, replay_idx, ghostVars>>

\* The process ends: its threads and its queue are gone, the output
\* directory and the state file stay.
ExitProcess(status) ==
    /\ phase' = "exited"
    /\ exit_status' = status
    /\ queue' = <<>>
    /\ gpc' = "off"
    /\ gen_count' = 0
    /\ requests' = requests
    /\ func_name' = 0
    /\ attempt' = 0
    /\ all_errors' = <<>>
    /\ code' = NoCode
    /\ hpc' = "none"
    /\ hwritten' = 0
    /\ result' = [done |-> FALSE, error |-> "none"]
    /\ frames' = <<>>
    /\ deadline_miss' = FALSE
    /\ done_read' = FALSE
    /\ vr_ret' = NoResult
    /\ dpc' = "off"
    /\ animation' = NoAnimation
    /\ animations' = <<>>
    /\ replay_idx' = 0
    /\ kb_running' = FALSE
    /\ bookmark_pressed' = FALSE
    /\ downvote_pressed' = FALSE
    /\ clean_ret' = NoCleanRet
    /\ mpc' = "exited"
    /\ lpc' = IF lpc \in {"none", "done"} THEN lpc ELSE "killed"
    /\ ldpc' = IF ldpc \in {"none", "done"} THEN ldpc ELSE "killed"
    /\ sent' = NoRequest
    /\ cycles' = 0
    /\ frame_capture' = {}
    /\ gen_running' = FALSE
    /\ disp_running' = FALSE
    /\ UNCHANGED <<mode, diskVars, stateVars, ghostVars, saveVars,
                   pref_events, press_playing, edges, fresh, pref_lost,
                   presses, raw_code, env, isatty, term_mode, old_settings,
                   loops, loading_active, capture_enabled, playback_files>>

\* main, single-shot mode, after generate_one_singleshot has returned:
\* exit(1) unless exactly one Animation is queued, else take it and loop it
MainSingleCheck ==
    /\ phase = "running" /\ mode = "singleshot"
    /\ gpc = "returned"
    /\ dpc = "loaded" \/ (dpc = "generating" /\ ldpc = "done")
    /\ IF qsize(queue) # 1
       THEN ExitProcess(1)
       ELSE /\ animation' = QueueGetItem(queue)
            /\ queue' = QueueGetRest(queue)
            /\ dequeued' = Append(dequeued, QueueGetItem(queue))
            /\ dpc' = "single_play"
            /\ disp_running' = TRUE
            /\ UNCHANGED <<coreVars, sent, gen_running, mode, phase, saveVars, kbVars, textVars, genVars, diskVars, vrVars, stateVars,
                           animations, replay_idx, enqueued, constructed,
                           validated>>

\* run_single: one playback of the looped animation with its feedback
\* checks; an exception skips the rest of the try body, clear_display()
\* included
SinglePlay(ok) ==
    /\ phase = "running" /\ dpc = "single_play"
    /\ dpc' = IF ok THEN "single_clear" ELSE "single_except"
    /\ UNCHANGED <<lifeVars, mode, phase, saveVars, kbVars, textVars, queue, genVars, diskVars, vrVars, stateVars,
                   animation, animations, replay_idx, ghostVars>>

\* run_single, "except Exception as e": the playback error is logged and
\* after a second the loop plays the animation again
SingleExcept ==
    /\ phase = "running" /\ dpc = "single_except"
    /\ dpc' = "single_play"
    /\ UNCHANGED <<lifeVars, mode, phase, saveVars, kbVars, textVars, queue, genVars, diskVars, vrVars, stateVars,
                   animation, animations, replay_idx, ghostVars>>

\* run_single: self.animator.clear_display() at the end of the try body
SingleClear ==
    /\ phase = "running" /\ dpc = "single_clear"
    /\ dpc' = "single_play"
    /\ UNCHANGED <<lifeVars, mode, phase, saveVars, kbVars, textVars, queue, genVars, diskVars, vrVars, stateVars,
                   animation, animations, replay_idx, ghostVars>>

\* KeyboardInterrupt in the main thread: the finally clauses stop the
\* threads and the process ends
Interrupt ==
    /\ phase = "running"
    /\ ExitProcess(0)

\* ---------------------------------------------------------- replay mode
\* A new process started with --replay on the output directory
StartReplay ==
    /\ phase = "exited"
    /\ phase' = "running"
    /\ mode' = "replay"
    /\ dpc' = "replay_load"
    /\ mpc' = "body"
    /\ exit_status' = NoStatus
    /\ UNCHANGED <<queue, genVars, diskVars, vrVars, stateVars, animation,
                   animations, replay_idx, ghostVars, saveVars, kbVars,
                   textVars, loadVars, sent, cycles, capVars, runVars, env, isatty, term_mode, old_settings, lpc,
                   loops>>

\* The Animations main builds from anim_*.py in sorted order: a file whose
\* exec raises is skipped, as is one that does not define its function.
RECURSIVE LoadAnimations(_)
LoadAnimations(f) ==
    IF f > MaxRequests THEN <<>>
    ELSE IF files[f] # NoCode /\ ~ExecRaises(files[f]) /\ Defines(files[f])
    THEN <<Animation(f, files[f])>> \o LoadAnimations(f + 1)
    ELSE LoadAnimations(f + 1)

\* main, replay mode: load the animations; exit(1) when there is none
ReplayLoad ==
    /\ phase = "running" /\ mode = "replay" /\ dpc = "replay_load"
    /\ IF LoadAnimations(1) = <<>>
       THEN ExitProcess(1)
       ELSE /\ animations' = LoadAnimations(1)
            /\ constructed' = constructed \cup Range(LoadAnimations(1))
            /\ replay_idx' = 1
            /\ dpc' = "replay_play"
            /\ UNCHANGED <<lifeVars, mode, phase, saveVars, kbVars, textVars, queue, genVars, diskVars, vrVars,
                           stateVars, animation, enqueued, dequeued, validated>>

\* main, replay mode: play the next animation of the list
ReplayPlay ==
    /\ phase = "running" /\ mode = "replay" /\ dpc = "replay_play"
    /\ animation' = animations[replay_idx]
    /\ dpc' = "replay_clear"
    /\ UNCHANGED <<lifeVars, mode, phase, saveVars, kbVars, textVars, queue, genVars, diskVars, vrVars, stateVars,
                   animations, replay_idx, ghostVars>>

\* finally: display.animator.clear_display(); next animation, cyclically
ReplayClear ==
    /\ phase = "running" /\ mode = "replay" /\ dpc = "replay_clear"
    /\ animation' = NoAnimation
    /\ replay_idx' = IF replay_idx = Len(animations) THEN 1 ELSE replay_idx + 1
    /\ dpc' = "replay_play"
    /\ UNCHANGED <<lifeVars, mode, phase, saveVars, kbVars, textVars, queue, genVars, diskVars, vrVars, stateVars,
                   animations, ghostVars>>

\* ------------------------------------------------- startup and shutdown
\* What the machine offers at startup: the cd5220 module cannot be
\* imported, the device path does not exist or is not readable and
\* writable, the service does not answer or does not list the model (the
\* failures init_check finds), or the device passes init_check and cannot
\* be opened by DisplayController.start.
InitCheckFailures ==
    {"no_module", "no_device", "no_permission", "no_service", "no_model"}
Environments == InitCheckFailures \cup {"open_fails", "ok"}

\* init_check(): sys.exit(1) on the first requirement that is not met
InitCheck ==
    /\ phase = "running" /\ mpc = "init_check"
    /\ IF env \in InitCheckFailures
       THEN ExitProcess(1)
       ELSE /\ mpc' = "kb_start"
            /\ UNCHANGED <<mode, phase, saveVars, kbVars, textVars, queue,
                           genVars, diskVars, vrVars, stateVars, dispVars,
                           ghostVars, loadVars, sent, cycles, capVars, runVars, env, isatty, term_mode, old_settings,
                           lpc, exit_status, loops>>

\* mutant: the listener is started whatever stdin is
KeyboardStartAlways ==
    /\ phase = "running" /\ mpc = "kb_start"
    /\ kb_running' = TRUE
    /\ lpc' = "tcgetattr"
    /\ loops' = loops \cup {"keyboard"}
    /\ mpc' = "display_start"
    /\ UNCHANGED <<mode, phase, saveVars, textVars, queue, genVars, diskVars,
                   vrVars, stateVars, dispVars, ghostVars, bookmark_pressed,
                   downvote_pressed, pref_events, press_playing, edges,
                   fresh, pref_lost, presses, loadVars, sent, cycles, capVars, runVars, env, isatty, term_mode,
                   old_settings, exit_status>>

\* keyboard.start(): nothing when stdin is not a terminal, else running is
\* set and the daemon thread is started
KeyboardStart ==
    /\ phase = "running" /\ mpc = "kb_start"
    /\ IF isatty
       THEN /\ kb_running' = TRUE
            /\ lpc' = "tcgetattr"
            /\ loops' = loops \cup {"keyboard"}
       ELSE UNCHANGED <<kb_running, lpc, loops>>
    /\ mpc' = "display_start"
    /\ UNCHANGED <<mode, phase, saveVars, textVars, queue, genVars, diskVars,
                   vrVars, stateVars, dispVars, ghostVars, bookmark_pressed,
                   downvote_pressed, pref_events, press_playing, edges,
                   fresh, pref_lost, presses, loadVars, sent, cycles, capVars, runVars, env, isatty, term_mode,
                   old_settings, exit_status>>

\* display.start(): the device is opened and the display cleared, or the
\* exception is re-raised and caught by main's "except Exception", after
\* which the finally clause runs.  Then the daemon thread running
\* show_loading is started; in single-shot mode the main thread goes on
\* to generate_one_singleshot.
DisplayStart ==
    /\ phase = "running" /\ mpc = "display_start"
    /\ IF env = "open_fails"
       THEN /\ mpc' = "kb_stop"
            /\ UNCHANGED <<gpc, dpc, ldpc>>
       ELSE IF mode = "singleshot"
       THEN /\ mpc' = "body"
            /\ gpc' = "begin"
            /\ dpc' = "generating"
            /\ ldpc' = "start"
       ELSE /\ mpc' = "gen_start"
            /\ ldpc' = "start"
            /\ UNCHANGED <<gpc, dpc>>
    /\ UNCHANGED <<mode, phase, saveVars, kbVars, textVars, queue, gen_count,
                   requests, func_name, attempt, all_errors, code, diskVars,
                   vrVars, stateVars, animation, animations, replay_idx,
                   ghostVars, loading_active, sent, cycles, capVars, runVars, env, isatty, term_mode, old_settings, lpc,
                   exit_status, loops>>

\* generator.start(): the daemon thread running _generate_loop is started
\* and main waits for the first Animation
GeneratorStart ==
    /\ phase = "running" /\ mpc = "gen_start"
    /\ gpc' = "loop"
    /\ dpc' = "wait_fill"
    /\ loops' = loops \cup {"generator"}
    /\ mpc' = "body"
    /\ gen_running' = TRUE
    /\ UNCHANGED <<mode, phase, saveVars, kbVars, textVars, queue, gen_count,
                   requests, func_name, attempt, all_errors, code, diskVars,
                   vrVars, stateVars, animation, animations, replay_idx,
                   ghostVars, loadVars, sent, cycles, capVars, disp_running, env, isatty, term_mode, old_settings, lpc,
                   exit_status>>

\* _listen: self.old_settings = termios.tcgetattr(sys.stdin), or the call
\* raises and the except and finally clauses follow
ListenSave(ok) ==
    /\ phase = "running" /\ lpc = "tcgetattr"
    /\ IF ok
       THEN old_settings' = term_mode /\ lpc' = "setcbreak"
       ELSE lpc' = "finally" /\ UNCHANGED old_settings
    /\ UNCHANGED <<mode, phase, saveVars, kbVars, textVars, queue, genVars,
                   diskVars, vrVars, stateVars, dispVars, ghostVars, mpc,
                   loadVars, sent, cycles, capVars, runVars, env, isatty, term_mode, exit_status, loops>>

\* _listen: tty.setcbreak(sys.stdin.fileno())
ListenCbreak ==
    /\ phase = "running" /\ lpc = "setcbreak"
    /\ term_mode' = "cbreak"
    /\ lpc' = "poll"
    /\ UNCHANGED <<mode, phase, saveVars, kbVars, textVars, queue, genVars,
                   diskVars, vrVars, stateVars, dispVars, ghostVars, mpc,
                   loadVars, sent, cycles, capVars, runVars, env, isatty, old_settings, exit_status, loops>>

\* _listen: "while self.running" finds the flag cleared by stop()
ListenExit ==
    /\ phase = "running" /\ lpc = "poll" /\ ~kb_running
    /\ lpc' = "finally"
    /\ UNCHANGED <<mode, phase, saveVars, kbVars, textVars, queue, genVars,
                   diskVars, vrVars, stateVars, dispVars, ghostVars, mpc,
                   loadVars, sent, cycles, capVars, runVars, env, isatty, term_mode, old_settings, exit_status, loops>>

\* _listen: select or read raises; the exception is logged and the finally
\* clause follows
ListenError ==
    /\ phase = "running" /\ lpc = "poll" /\ kb_running
    /\ lpc' = "finally"
    /\ UNCHANGED <<mode, phase, saveVars, kbVars, textVars, queue, genVars,
                   diskVars, vrVars, stateVars, dispVars, ghostVars, mpc,
                   loadVars, sent, cycles, capVars, runVars, env, isatty, term_mode, old_settings, exit_status, loops>>

\* _listen, finally: "if self.old_settings: termios.tcsetattr(...)"; the
\* thread ends
ListenRestore ==
    /\ phase = "running" /\ lpc = "finally"
    /\ term_mode' = IF old_settings # NoSettings THEN old_settings
                    ELSE term_mode
    /\ lpc' = "done"
    /\ UNCHANGED <<mode, phase, saveVars, kbVars, textVars, queue, genVars,
                   diskVars, vrVars, stateVars, dispVars, ghostVars, mpc,
                   loadVars, sent, cycles, capVars, runVars, env, isatty, old_settings, exit_status, loops>>

\* KeyboardInterrupt in the body of main: the except clause logs it and
\* the finally clause follows.  In single-shot mode the main thread was
\* the one generating or playing.
MainInterrupt ==
    /\ phase = "running" /\ mpc = "body"
    /\ mpc' = "kb_stop"
    /\ dpc' = "off"
    /\ disp_running' = FALSE
    /\ gpc' = IF mode = "singleshot" THEN "off" ELSE gpc
    /\ UNCHANGED <<mode, phase, saveVars, kbVars, textVars, queue, gen_count,
                   requests, func_name, attempt, all_errors, code, diskVars,
                   vrVars, stateVars, animation, animations, replay_idx,
                   ghostVars, loadVars, sent, cycles, capVars, gen_running, env, isatty, term_mode, old_settings, lpc,
                   exit_status, loops>>

\* main, finally clause: generator.stop() follows keyboard.stop() in
\* continuous mode, display.stop() in single-shot mode
AfterKeyboardStop == IF mode = "continuous" THEN "gen_stop" ELSE "display_stop"

\* keyboard.stop(): "self.running = False", then the join when there is a
\* thread
KeyboardStop ==
    /\ phase = "running" /\ mpc = "kb_stop"
    /\ kb_running' = FALSE
    /\ mpc' = IF lpc = "none" THEN AfterKeyboardStop ELSE "kb_join"
    /\ UNCHANGED <<mode, phase, saveVars, textVars, queue, genVars, diskVars,
                   vrVars, stateVars, dispVars, ghostVars, bookmark_pressed,
                   downvote_pressed, pref_events, press_playing, edges,
                   fresh, pref_lost, presses, loadVars, sent, cycles, capVars, runVars, env, isatty, term_mode,
                   old_settings, lpc, exit_status, loops>>

\* keyboard.stop(): self.thread.join(timeout=0.5) returns because the
\* thread has ended
KeyboardJoinEnded ==
    /\ phase = "running" /\ mpc = "kb_join" /\ lpc = "done"
    /\ mpc' = AfterKeyboardStop
    /\ UNCHANGED <<mode, phase, saveVars, kbVars, textVars, queue, genVars,
                   diskVars, vrVars, stateVars, dispVars, ghostVars, loadVars, sent, cycles, capVars, runVars, env,
                   isatty, term_mode, old_settings, lpc, exit_status, loops>>

\* keyboard.stop(): the join returns after 0.5 s with the thread alive, or
\* a second KeyboardInterrupt ends it
KeyboardJoinTimeout ==
    /\ phase = "running" /\ mpc = "kb_join" /\ lpc # "done"
    /\ mpc' = AfterKeyboardStop
    /\ UNCHANGED <<mode, phase, saveVars, kbVars, textVars, queue, genVars,
                   diskVars, vrVars, stateVars, dispVars, ghostVars, loadVars, sent, cycles, capVars, runVars, env,
                   isatty, term_mode, old_settings, lpc, exit_status, loops>>

\* Generator.stop(): "self.running = False", then the join when there is
\* a thread
GeneratorStop ==
    /\ phase = "running" /\ mpc = "gen_stop"
    /\ gen_running' = FALSE
    /\ mpc' = IF "generator" \in loops THEN "gen_join" ELSE "display_stop"
    /\ UNCHANGED <<mode, phase, saveVars, kbVars, textVars, queue, genVars,
                   diskVars, vrVars, stateVars, dispVars, ghostVars,
                   loadVars, sent, cycles, capVars, disp_running, env,
                   isatty, term_mode, old_settings, lpc, exit_status, loops>>

\* Generator.stop(): self.thread.join(timeout=2) returns because the
\* thread has ended
GeneratorJoinEnded ==
    /\ phase = "running" /\ mpc = "gen_join" /\ gpc = "stopped"
    /\ mpc' = "display_stop"
    /\ UNCHANGED <<mode, phase, saveVars, kbVars, textVars, queue, genVars,
                   diskVars, vrVars, stateVars, dispVars, ghostVars,
                   loadVars, sent, cycles, capVars, runVars, env, isatty,
                   term_mode, old_settings, lpc, exit_status, loops>>

\* Generator.stop(): the join returns after 2 s with the thread alive
GeneratorJoinTimeout ==
    /\ phase = "running" /\ mpc = "gen_join" /\ gpc # "stopped"
    /\ mpc' = "display_stop"
    /\ UNCHANGED <<mode, phase, saveVars, kbVars, textVars, queue, genVars,
                   diskVars, vrVars, stateVars, dispVars, ghostVars,
                   loadVars, sent, cycles, capVars, runVars, env, isatty,
                   term_mode, old_settings, lpc, exit_status, loops>>

\* display.stop() (running is cleared and, with an animator, the display
\* is cleared) and the return of main: the process ends with status 0 and
\* its daemon threads end with it
MainEnd ==
    /\ phase = "running" /\ mpc = "display_stop"
    /\ ExitProcess(0)

\* ------------------------------------------------- loading indicator
\* show_loading: "self.loading_active = True", the first statement of the
\* thread
LoadingBegin ==
    /\ phase = "running" /\ ldpc = "start"
    /\ loading_active' = TRUE
    /\ ldpc' = "loop"
    /\ UNCHANGED <<mode, phase, saveVars, kbVars, textVars, queue, genVars,
                   diskVars, vrVars, stateVars, dispVars, ghostVars, mpc, sent, cycles, capVars, runVars,
                   env, isatty, term_mode, old_settings, lpc, exit_status,
                   loops>>

\* ProgressTracker: current >= target.  The target is MAX_RETRIES in
\* single-shot mode, where generate_one_singleshot sets the progress to
\* MAX_RETRIES before it returns, and QUEUE_SIZE in continuous mode, where
\* the progress after a sequence is gen_count.
ProgressComplete ==
    IF mode = "singleshot" THEN gpc = "returned" ELSE gen_count >= QUEUE_SIZE

\* show_loading: "while self.loading_active", then either the final
\* branch (current >= target) or a frame with the percentage
LoadingCheck ==
    /\ phase = "running" /\ ldpc = "loop"
    /\ IF ~loading_active
       THEN ldpc' = "done"
       ELSE IF ProgressComplete THEN ldpc' = "final" ELSE ldpc' = "write"
    /\ UNCHANGED <<mode, phase, saveVars, kbVars, textVars, queue, genVars,
                   diskVars, vrVars, stateVars, dispVars, ghostVars, mpc, sent, cycles, capVars, runVars,
                   env, isatty, term_mode, old_settings, lpc, exit_status,
                   loops, loading_active>>

\* show_loading: self.animator.write_frame(...) has returned and the
\* thread sleeps 0.1 s, or the write raised: the except clause logs it and
\* the finally clause clears loading_active
LoadingWrite(ok) ==
    /\ phase = "running" /\ ldpc = "write"
    /\ IF ok
       THEN ldpc' = "loop" /\ UNCHANGED loading_active
       ELSE ldpc' = "done" /\ loading_active' = FALSE
    /\ UNCHANGED <<mode, phase, saveVars, kbVars, textVars, queue, genVars,
                   diskVars, vrVars, stateVars, dispVars, ghostVars, mpc, sent, cycles, capVars, runVars,
                   env, isatty, term_mode, old_settings, lpc, exit_status,
                   loops>>

\* show_loading, final branch: "LOADING 100%" is written, the display is
\* cleared after 0.15 s and the thread returns through the finally clause
LoadingFinal ==
    /\ phase = "running" /\ ldpc = "final"
    /\ ldpc' = "done"
    /\ loading_active' = FALSE
    /\ UNCHANGED <<mode, phase, saveVars, kbVars, textVars, queue, genVars,
                   diskVars, vrVars, stateVars, dispVars, ghostVars, mpc, sent, cycles, capVars, runVars,
                   env, isatty, term_mode, old_settings, lpc, exit_status,
                   loops>>

\* main with the loading thread alive, after the first Animation is
\* queued (continuous) or generate_one_singleshot has returned:
\* "display.loading_active = False", then loading_thread.join(timeout=0.5)
MainStopLoading ==
    /\ phase = "running" /\ ldpc # "done"
    /\ \/ mode = "continuous" /\ dpc = "wait_fill" /\ qsize(queue) >= 1
       \/ mode = "singleshot" /\ dpc = "generating" /\ gpc = "returned"
    /\ loading_active' = FALSE
    /\ dpc' = "load_join"
    /\ UNCHANGED <<mode, phase, saveVars, kbVars, textVars, queue, genVars,
                   diskVars, vrVars, stateVars, animation, animations,
                   replay_idx, ghostVars, mpc, sent, cycles, capVars, runVars, env, isatty, term_mode,
                   old_settings, lpc, exit_status, loops, ldpc>>

\* What main does after the join: display.run(), which sets running, in
\* continuous mode, the check of the queue in single-shot mode
AfterLoading == IF mode = "continuous" THEN "get" ELSE "loaded"

\* loading_thread.join(timeout=0.5) returns because the thread has ended
LoadingJoinEnded ==
    /\ phase = "running" /\ dpc = "load_join" /\ ldpc = "done"
    /\ dpc' = AfterLoading
    /\ disp_running' = (mode = "continuous")
    /\ UNCHANGED <<coreVars, sent, gen_running, mode, phase, saveVars, kbVars, textVars, queue,
                   genVars, diskVars, vrVars, stateVars, animation,
                   animations, replay_idx, ghostVars>>

\* loading_thread.join(timeout=0.5) returns after 0.5 s with the thread
\* alive; main goes on without looking at the thread
LoadingJoinTimeout ==
    /\ phase = "running" /\ dpc = "load_join" /\ ldpc # "done"
    /\ dpc' = AfterLoading
    /\ disp_running' = (mode = "continuous")
    /\ UNCHANGED <<coreVars, sent, gen_running, mode, phase, saveVars, kbVars, textVars, queue,
                   genVars, diskVars, vrVars, stateVars, animation,
                   animations, replay_idx, ghostVars>>

\* ------------------------------------------------------- specifications
\* The pipeline: Generator, queue, DisplayController, restart in replay.
Next ==
    \/ GenLoopCheck
    \/ GenLoop
    \/ GenWake
    \/ SingleshotBegin
    \/ \E r \in PipelineResponses : GenRequest(r)
    \/ GenSaveCode(TRUE)
    \/ GenSyntax
    \/ GenBind
    \/ VRStart
    \/ HelperWriteFrame
    \/ HelperFinish
    \/ VRJoinEnded
    \/ VRJoinTimeout
    \/ VRCheck
    \/ GenAfterValidate
    \/ GenPersistFrames(TRUE)
    \/ GenConstruct
    \/ GenEnqueue
    \/ \E s \in {"none", "analyze_code"} : GenPost(s, "ok")
    \/ GenExhausted("ok")
    \/ MainWaitFill
    \/ DispGet
    \/ DispQueueEmpty
    \/ DispPlaceholder
    \/ DispPlay
    \/ DispClear
    \/ MainSingleCheck
    \/ \E ok \in BOOLEAN : SinglePlay(ok)
    \/ SingleExcept
    \/ SingleClear
    \/ Interrupt
    \/ StartReplay
    \/ ReplayLoad
    \/ ReplayPlay
    \/ ReplayClear

Spec == Init /\ [][Next]_vars


\* The first SeqAttempts attempts of one attempt sequence, with every kind
\* of response and every failure of the environment:
\* generate_one_singleshot called by the main thread.
InitSeq ==
    /\ InitCommon
    /\ mode = "singleshot"
    /\ status_pattern = <<>>
    /\ kb_running = FALSE
    /\ InitStarted
    /\ CaptureOff
    /\ raw_code = <<>>
    /\ gpc = "begin"
    /\ func_name = 0
    /\ attempt = 0
    /\ dpc = "generating"

NextSeq ==
    \/ SingleshotBegin
    \/ \E r \in Responses : attempt <= SeqAttempts /\ GenRequest(r)
    \/ \E ok \in BOOLEAN : GenSaveCode(ok)
    \/ GenSyntax
    \/ GenBind
    \/ VRStart
    \/ HelperWriteFrame
    \/ HelperFinish
    \/ VRJoinEnded
    \/ VRJoinTimeout
    \/ VRCheck
    \/ GenAfterValidate
    \/ \E ok \in BOOLEAN : GenPersistFrames(ok)
    \/ GenConstruct
    \/ GenEnqueue
    \/ \E s \in PostSteps : GenPost(s, "ok")
    \/ MainSingleCheck
    \/ \E ok \in BOOLEAN : SinglePlay(ok)
    \/ SingleExcept
    \/ SingleClear

SpecSeq == InitSeq /\ [][NextSeq]_vars


\* State.save called on a freshly constructed State over and over, the
\* statuses following a pattern drawn at the start.
InitState ==
    /\ InitCommon
    /\ mode = "continuous"
    /\ status_pattern \in [1..PatternLen -> {"success", "failure"}]
    /\ kb_running = FALSE
    /\ InitStarted
    /\ CaptureOff
    /\ raw_code = <<>>
    /\ gpc = "loop"
    /\ func_name = 0
    /\ attempt = 0
    /\ dpc = "wait_fill"

\* save is entered: the lock is taken and the outcome is appended, counted
\* and the history capped; the snapshot write is next.
StateSaveCall ==
    /\ spc = "idle" /\ ~state_lock
    /\ Len(outcomes) < MaxSaves
    /\ state_lock' = TRUE
    /\ LET n == Len(outcomes)
           st == status_pattern[(n % PatternLen) + 1]
       IN /\ data' = StateSave(data, n + 1, st, <<>>)
          /\ outcomes' = Append(outcomes, Outcome(n + 1, st, <<>>))
    /\ spc' = "write"
    /\ UNCHANGED <<lifeVars, mode, phase, state_file, write_ok, kbVars, textVars, queue,
                   genVars, diskVars, vrVars, events, training,
                   status_pattern, dispVars, ghostVars>>

\* mutant: a failed write is not caught, the exception reaches the caller
StateSaveWritePropagates(w) ==
    /\ spc = "write"
    /\ state_file' = SnapshotWrite(state_file, data, w)
    /\ write_ok' = (w = "ok")
    /\ state_lock' = FALSE
    /\ spc' = IF w = "ok" THEN "idle" ELSE "raised"
    /\ UNCHANGED <<lifeVars, mode, phase, kbVars, textVars, queue, genVars, diskVars,
                   vrVars, stateVars, dispVars, ghostVars>>

\* The snapshot is written, or the write fails and the except clause logs
\* it; the with block ends (the lock is released) and save returns.
StateSaveWrite(w) ==
    /\ spc = "write"
    /\ state_file' = SnapshotWrite(state_file, data, w)
    /\ write_ok' = (w = "ok")
    /\ state_lock' = FALSE
    /\ spc' = "idle"
    /\ UNCHANGED <<lifeVars, mode, phase, kbVars, textVars, queue, genVars, diskVars,
                   vrVars, stateVars, dispVars, ghostVars>>

NextState ==
    \/ StateSaveCall
    \/ \E w \in WriteOutcomes : StateSaveWrite(w)

SpecState == InitState /\ [][NextState]_vars

\* Playback with a listener: continuous mode on a terminal, a service
\* whose responses validate, key presses at any moment.
DisplayResponses == {[kind |-> "return", nframes |-> 1]}

InitDisplay ==
    /\ InitCommon
    /\ mode = "continuous"
    /\ status_pattern = <<>>
    /\ kb_running = TRUE
    /\ InitStarted
    /\ CaptureOff
    /\ raw_code = <<>>
    /\ gpc = "loop"
    /\ func_name = 0
    /\ attempt = 0
    /\ dpc = "wait_fill"

NextDisplay ==
    \/ GenLoopCheck
    \/ gen_count < DispAnimations /\ GenLoop
    \/ GenWake
    \/ \E r \in DisplayResponses : GenRequest(r)
    \/ GenSaveCode(TRUE)
    \/ GenSyntax
    \/ GenBind
    \/ VRStart
    \/ HelperWriteFrame
    \/ HelperFinish
    \/ VRJoinEnded
    \/ VRCheck
    \/ GenAfterValidate
    \/ GenPersistFrames(TRUE)
    \/ GenConstruct
    \/ GenEnqueue
    \/ GenPost("none", "ok")
    \/ MainWaitFill
    \/ DispGet
    \/ DispQueueEmpty
    \/ DispPlaceholder
    \/ \E ok \in BOOLEAN : DispRun(ok)
    \/ DispExcept
    \/ DispCheckBookmark
    \/ DispClearBookmark
    \/ \E ok \in BOOLEAN : DispBookmark(ok)
    \/ DispCheckDownvote
    \/ DispClearDownvote
    \/ \E ok \in BOOLEAN : DispDownvote(ok)
    \/ DispClear
    \/ \E ch \in KeyChars : KeyPress(ch)

SpecDisplay == InitDisplay /\ [][NextDisplay]_vars

\* One attempt sequence to its end, success or exhaustion, with the
\* failures of every stage: generate_one_singleshot called by the main
\* thread.
RetryResponses ==
    {[kind |-> "request_failed", nframes |-> 0],
     [kind |-> "unclean", nframes |-> 0],
     [kind |-> "badsyntax", nframes |-> 0],
     [kind |-> "raise", nframes |-> 0],
     [kind |-> "return", nframes |-> 1]}

\* main() from init_check to the end of the process, with and without a
\* terminal on stdin and with every startup failure: the listener thread,
\* the generation of MainAnimations animations whose code is good, their
\* playback with the feedback checks, and the shutdown after a
\* KeyboardInterrupt.
MainAnimations == 1
MainPresses == 1       \* key presses read by the listener of main

InitMain ==
    /\ InitCommon
    /\ mode \in {"continuous", "singleshot"}
    /\ status_pattern = <<>>
    /\ raw_code = <<>>
    /\ gpc = "off"
    /\ func_name = 0
    /\ attempt = 0
    /\ dpc = "off"
    /\ kb_running = FALSE
    /\ mpc = "init_check"
    /\ env \in Environments
    /\ isatty \in BOOLEAN
    /\ term_mode = PriorMode
    /\ old_settings = NoSettings
    /\ lpc = "none"
    /\ exit_status = NoStatus
    /\ loops = {}
    /\ loading_active = FALSE
    /\ ldpc = "none"
    /\ sent = NoRequest
    /\ cycles = 0
    /\ CaptureOff
    /\ gen_running = FALSE
    /\ disp_running = FALSE

NextMain ==
    \/ InitCheck
    \/ KeyboardStart
    \/ DisplayStart
    \/ GeneratorStart
    \/ \E ok \in BOOLEAN : ListenSave(ok)
    \/ ListenCbreak
    \/ \E ch \in KeyChars :
           /\ presses.b + presses.d + presses.other < MainPresses
           /\ KeyPress(ch)
    \/ ListenError
    \/ ListenExit
    \/ ListenRestore
    \/ GenLoopCheck
    \/ gen_count < MainAnimations /\ GenLoop
    \/ SingleshotBegin
    \/ \E r \in DisplayResponses : GenRequest(r)
    \/ GenSaveCode(TRUE)
    \/ GenSyntax
    \/ GenBind
    \/ VRStart
    \/ HelperWriteFrame
    \/ HelperFinish
    \/ VRJoinEnded
    \/ VRCheck
    \/ GenAfterValidate
    \/ GenPersistFrames(TRUE)
    \/ GenConstruct
    \/ GenEnqueue
    \/ GenPost("none", "ok")
    \/ MainWaitFill
    \/ DispGet
    \/ DispQueueEmpty
    \/ DispPlaceholder
    \/ \E ok \in BOOLEAN : DispRun(ok)
    \/ DispExcept
    \/ DispCheckBookmark
    \/ DispClearBookmark
    \/ \E ok \in BOOLEAN : DispBookmark(ok)
    \/ DispCheckDownvote
    \/ DispClearDownvote
    \/ \E ok \in BOOLEAN : DispDownvote(ok)
    \/ DispClear
    \/ MainSingleCheck
    \/ \E ok \in BOOLEAN : SinglePlay(ok)
    \/ SingleExcept
    \/ SingleClear
    \/ MainInterrupt
    \/ KeyboardStop
    \/ KeyboardJoinEnded
    \/ KeyboardJoinTimeout
    \/ GeneratorStop
    \/ GeneratorJoinEnded
    \/ GeneratorJoinTimeout
    \/ GenLoopExit
    \/ MainEnd
    \/ LoadingBegin
    \/ LoadingCheck
    \/ \E ok \in BOOLEAN : LoadingWrite(ok)
    \/ LoadingFinal
    \/ MainStopLoading
    \/ LoadingJoinEnded
    \/ LoadingJoinTimeout

SpecMain == InitMain /\ [][NextMain]_vars

\* The same with the scheduling of the threads: a step of the listener
\* thread, or of the main thread in its finally clause, that stays possible
\* is taken.
ListenerStep == ListenSave(TRUE) \/ ListenCbreak \/ ListenExit \/ ListenRestore
ShutdownStep ==
    \/ KeyboardStop
    \/ KeyboardJoinEnded
    \/ KeyboardJoinTimeout
    \/ GeneratorStop
    \/ GeneratorJoinEnded
    \/ GeneratorJoinTimeout
    \/ MainEnd
SpecMainFair ==
    InitMain /\ [][NextMain]_vars /\ WF_vars(ListenerStep) /\ WF_vars(ShutdownStep)

\* The shutdown: main as above while no key is read, so that the feedback
\* checks find their flags clear, with the same scheduling of the listener
\* thread and of the finally clause of main.
NextStop ==
    \/ InitCheck
    \/ KeyboardStart
    \/ DisplayStart
    \/ GeneratorStart
    \/ \E ok \in BOOLEAN : ListenSave(ok)
    \/ ListenCbreak
    \/ ListenError
    \/ ListenExit
    \/ ListenRestore
    \/ GenLoopCheck
    \/ gen_count < MainAnimations /\ GenLoop
    \/ SingleshotBegin
    \/ \E r \in DisplayResponses : GenRequest(r)
    \/ GenSaveCode(TRUE)
    \/ GenSyntax
    \/ GenBind
    \/ VRStart
    \/ HelperWriteFrame
    \/ HelperFinish
    \/ VRJoinEnded
    \/ VRCheck
    \/ GenAfterValidate
    \/ GenPersistFrames(TRUE)
    \/ GenConstruct
    \/ GenEnqueue
    \/ GenPost("none", "ok")
    \/ MainWaitFill
    \/ DispGet
    \/ DispQueueEmpty
    \/ DispPlaceholder
    \/ \E ok \in BOOLEAN : DispRun(ok)
    \/ DispExcept
    \/ DispCheckBookmark
    \/ DispCheckDownvote
    \/ DispClear
    \/ MainSingleCheck
    \/ \E ok \in BOOLEAN : SinglePlay(ok)
    \/ SingleExcept
    \/ SingleClear
    \/ MainInterrupt
    \/ KeyboardStop
    \/ KeyboardJoinEnded
    \/ KeyboardJoinTimeout
    \/ GeneratorStop
    \/ GeneratorJoinEnded
    \/ GeneratorJoinTimeout
    \/ GenLoopExit
    \/ MainEnd
    \/ LoadingBegin
    \/ LoadingCheck
    \/ \E ok \in BOOLEAN : LoadingWrite(ok)
    \/ LoadingFinal
    \/ MainStopLoading
    \/ LoadingJoinEnded
    \/ LoadingJoinTimeout

SpecStop == InitMain /\ [][NextStop]_vars
SpecStopFair ==
    InitMain /\ [][NextStop]_vars /\ WF_vars(ListenerStep) /\ WF_vars(ShutdownStep)

\* The placeholder: continuous mode without a listener, the generation of
\* PlaceholderAnimations animations whose code is good, and the controller
\* with show_placeholder cycle by cycle and the capture of the frames.
PlaceholderAnimations == 3

\* With the simulator or preview the animator captures; the loading
\* indicator, which has ended, wrote its frames through it.
InitPlaceholder ==
    /\ InitCommon
    /\ mode = "continuous"
    /\ status_pattern = <<>>
    /\ kb_running = FALSE
    /\ InitStarted
    /\ capture_enabled \in BOOLEAN
    /\ frame_capture = IF capture_enabled THEN {<<"loading", 0>>} ELSE {}
    /\ playback_files = NoPlaybackFiles
    /\ raw_code = <<>>
    /\ gpc = "loop"
    /\ func_name = 0
    /\ attempt = 0
    /\ dpc = "wait_fill"

NextPlaceholder ==
    \/ GenLoopCheck
    \/ gen_count < PlaceholderAnimations /\ GenLoop
    \/ GenWake
    \/ \E r \in DisplayResponses : GenRequest(r)
    \/ GenSaveCode(TRUE)
    \/ GenSyntax
    \/ GenBind
    \/ VRStart
    \/ HelperWriteFrame
    \/ HelperFinish
    \/ VRJoinEnded
    \/ VRCheck
    \/ GenAfterValidate
    \/ GenPersistFrames(TRUE)
    \/ GenConstruct
    \/ GenEnqueue
    \/ GenPost("none", "ok")
    \/ MainWaitFill
    \/ DispGet
    \/ DispQueueEmpty
    \/ \E ok \in BOOLEAN : PlaceholderCycle(ok)
    \/ PlaceholderEnd
    \/ DispPlay
    \/ DispClear

SpecPlaceholder == InitPlaceholder /\ [][NextPlaceholder]_vars

\* The controller thread is scheduled: its timeouts and sleeps expire and
\* its next step is taken.
ControllerStep ==
    \/ DispGet
    \/ DispQueueEmpty
    \/ PlaceholderCycle(TRUE)
    \/ PlaceholderEnd
    \/ DispPlay
    \/ DispClear
SpecPlaceholderFair ==
    InitPlaceholder /\ [][NextPlaceholder]_vars /\ WF_vars(ControllerStep)

InitRetry ==
    /\ InitCommon
    /\ mode = "singleshot"
    /\ status_pattern = <<>>
    /\ kb_running = FALSE
    /\ InitStarted
    /\ CaptureOff
    /\ raw_code = <<>>
    /\ gpc = "begin"
    /\ func_name = 0
    /\ attempt = 0
    /\ dpc = "generating"

NextRetry ==
    \/ SingleshotBegin
    \/ \E r \in RetryResponses : GenRequest(r)
    \/ \E ok \in BOOLEAN : GenSaveCode(ok)
    \/ GenSyntax
    \/ GenBind
    \/ VRStart
    \/ HelperWriteFrame
    \/ HelperFinish
    \/ VRJoinEnded
    \/ VRJoinTimeout
    \/ VRCheck
    \/ GenAfterValidate
    \/ GenPersistFrames(TRUE)
    \/ GenConstruct
    \/ GenEnqueue
    \/ \E s \in {"none", "analyze_code"}, w \in WriteOutcomes : GenPost(s, w)
    \/ \E w \in WriteOutcomes : GenExhausted(w)

SpecRetry == InitRetry /\ [][NextRetry]_vars

\* The sanitizer: the first attempt of a single-shot sequence whose response
\* is a text drawn at the start; cleaned code then either fails the syntax
\* check or runs and returns within the validation timeout.
CleanResponses ==
    {[kind |-> "return", nframes |-> 1], [kind |-> "badsyntax", nframes |-> 0]}

InitClean ==
    /\ InitCommon
    /\ mode = "singleshot"
    /\ status_pattern = <<>>
    /\ kb_running = FALSE
    /\ InitStarted
    /\ CaptureOff
    /\ raw_code \in RawTexts(FuncText(1))
    /\ gpc = "begin"
    /\ func_name = 0
    /\ attempt = 0
    /\ dpc = "generating"

NextClean ==
    \/ SingleshotBegin
    \/ \E r \in CleanResponses : attempt = 1 /\ GenerateCode(r, raw_code)
    \/ GenSaveCode(TRUE)
    \/ GenSyntax
    \/ GenBind
    \/ VRStart
    \/ HelperWriteFrame
    \/ HelperFinish
    \/ VRJoinEnded
    \/ VRCheck
    \/ GenAfterValidate
    \/ GenPersistFrames(TRUE)
    \/ GenConstruct
    \/ GenEnqueue
    \/ GenPost("none", "ok")

SpecClean == InitClean /\ [][NextClean]_vars

\* ================================================================ claims
EnqCount(f) == Cardinality({i \in 1..Len(enqueued) : enqueued[i].func_name = f})
HasOutcome(f, st) ==
    \E i \in 1..Len(outcomes) :
        outcomes[i].function = f /\ outcomes[i].status = st
CountStatus(st) == Cardinality({i \in 1..Len(outcomes) : outcomes[i].status = st})
Abs(x) == IF x < 0 THEN 0 - x ELSE x
InAttemptAfterValidate == gpc \in {"persist", "construct", "enqueue", "post"}

\* C1: in continuous mode the work queue never holds more than QUEUE_SIZE
\* Animations, whatever the interleaving of Generator and DisplayController.
C1_QueueBounded == mode = "continuous" => Len(queue) <= QUEUE_SIZE

\* C1 witness: the queue is full and the generator loop is deferring
C1_Witness ==
    mode = "continuous" /\ Len(queue) = QUEUE_SIZE /\ gpc = "sleep"

\* C2: the Animations taken from the queue are, in order, a prefix of the
\* Animations put on it.
C2_FifoOrder ==
    /\ Len(dequeued) <= Len(enqueued)
    /\ \A i \in 1..Len(dequeued) : dequeued[i] = enqueued[i]

\* C2 witness: run() has dequeued two different Animations and is playing
\* the second
C2_Witness ==
    /\ mode = "continuous"
    /\ Len(dequeued) >= 2
    /\ dequeued[1] # dequeued[2]
    /\ dpc = "play"

\* C3: one attempt sequence enqueues at most one Animation, and exactly one
\* when it ends in success, also when a step after the enqueue raises.
C3_OneAnimationPerSequence ==
    \A f \in FuncIds :
        /\ EnqCount(f) <= 1
        /\ HasOutcome(f, "success") => EnqCount(f) = 1

\* C4: a function id with a recorded failure outcome never had an
\* Animation on the queue.
C4_NoAnimationForFailure ==
    \A f \in FuncIds : HasOutcome(f, "failure") => EnqCount(f) = 0

\* C5: every Animation ever constructed, in continuous, single-shot and
\* replay mode, holds code that passed runtime validation (and so the
\* stages before it).
C5_AnimationOnlyIfValidated ==
    \A a \in constructed : a.code.ver \in validated

\* C6 as stated: when the join ended by timeout with the helper not done,
\* validate_runtime returns the timeout failure and the attempt does not go
\* on to enqueue.
C6_DeadlineMissIsHung ==
    deadline_miss =>
        /\ ~InAttemptAfterValidate
        /\ gpc = "vr_ret" => (~vr_ret.valid /\ vr_ret.error = "Timeout")

\* C6 amended: a candidate whose completion flag is still unset when the
\* caller reads it after the join is classified Hung (timeout failure), the
\* attempt does not go on to enqueue, and a candidate that never completes
\* is never validated or enqueued.
C6_NotDoneAtReadIsHung ==
    /\ (gpc = "vr_ret" /\ ~done_read) =>
           (~vr_ret.valid /\ vr_ret.error = "Timeout" /\ ~vr_ret.has_capture)
    /\ InAttemptAfterValidate => done_read
    /\ (gpc = "vr_ret" /\ code.kind = "hang") => ~vr_ret.valid
    /\ \A i \in 1..Len(enqueued) : enqueued[i].code.kind # "hang"

\* C6 witness: validate_runtime has returned for a candidate that hangs
C6_Witness ==
    /\ gpc = "vr_ret" /\ code.kind = "hang"
    /\ deadline_miss /\ ~done_read
    /\ vr_ret.error = "Timeout"

\* C7: a callable that raises before the deadline makes validate_runtime
\* return a failure tagged as runtime crash, not as timeout.
C7_CrashIsRuntimeCrash ==
    (gpc = "vr_ret" /\ code.kind = "raise" /\ hpc = "raised" /\ ~deadline_miss)
        => (~vr_ret.valid /\ vr_ret.error = "Runtime crash")

\* C8: a callable that returns before the deadline makes validate_runtime
\* return (True, "", capture), the capture holding every frame written, in
\* order, each line cut or padded to the display width.
C8_ReturnIsSuccess ==
    (gpc = "vr_ret" /\ hpc = "returned" /\ ~deadline_miss) =>
        /\ vr_ret.valid /\ vr_ret.error = "" /\ vr_ret.has_capture
        /\ Len(vr_ret.capture) = code.nframes
        /\ \A i \in 1..Len(vr_ret.capture) : \A l \in 1..2 :
              LET raw == RawFrame(i)[l]
                  got == vr_ret.capture[i][l]
              IN /\ Len(got) = FRAME_WIDTH
                 /\ \A j \in 1..FRAME_WIDTH :
                       got[j] = IF j <= Len(raw) THEN raw[j] ELSE 0

\* C8 witness: success for a callable that wrote two frames in time
C8_Witness ==
    /\ gpc = "vr_ret" /\ hpc = "returned" /\ ~deadline_miss
    /\ vr_ret.valid /\ Len(vr_ret.capture) >= 2

\* C9 as stated: a successful validation captured simulated duration x
\* frame rate frames, within one frame (for the validation animator's rate
\* or the playback rate).
C9_FrameCountMatchesRate ==
    (gpc = "vr_ret" /\ vr_ret.valid) =>
        \/ Abs(Len(vr_ret.capture) - SIM_DURATION * VALIDATION_FRAME_RATE) <= 1
        \/ Abs(Len(vr_ret.capture) - SIM_DURATION * FRAME_RATE) <= 1

\* C9 amended: a successful validation captured exactly as many frames as
\* the callable wrote during the run, whatever that number is.
C9_FrameCountIsWrites ==
    (gpc = "vr_ret" /\ vr_ret.valid) =>
        /\ Len(vr_ret.capture) = hwritten
        /\ hwritten = code.nframes

\* C9 witness: a successful validation of a callable that wrote one frame
C9_Witness ==
    gpc = "vr_ret" /\ vr_ret.valid /\ hwritten = 1 /\ Len(vr_ret.capture) = 1

\* C10: after any sequence of State.save calls from an empty State each
\* counter equals the number of outcomes of its status ever recorded, and
\* their sum the number of all outcomes, also past the history cap.
C10_CountersMatchOutcomes ==
    /\ data.success = CountStatus("success")
    /\ data.failure = CountStatus("failure")
    /\ data.success + data.failure = Len(outcomes)

\* C10 witness: more outcomes than the history holds, of both statuses
C10_Witness ==
    /\ Len(outcomes) > HISTORY_CAP
    /\ Len(data.generations) = HISTORY_CAP
    /\ data.success > 0 /\ data.failure > 0

\* C11: after every State.save the history holds at most HISTORY_CAP
\* entries, and they are the latest min(n, HISTORY_CAP) of the n outcomes
\* recorded so far, in recording order.
C11_HistoryIsLatest ==
    LET n == Len(outcomes)
        k == IF n < HISTORY_CAP THEN n ELSE HISTORY_CAP
    IN /\ Len(data.generations) <= HISTORY_CAP
       /\ Len(data.generations) = k
       /\ \A i \in 1..k : data.generations[i] = outcomes[n - k + i]

\* C11 witness: two outcomes past the cap, the two oldest are gone
C11_Witness ==
    /\ Len(outcomes) = HISTORY_CAP + 2
    /\ data.generations[1].function = 3
    /\ data.generations[HISTORY_CAP].function = HISTORY_CAP + 2

\* C12: a snapshot write that fails does not reach the caller of save: save
\* returns normally, the lock is free again, and the outcome is in the
\* in-memory history and counted.
C12_WriteFailureContained ==
    /\ spc \in {"idle", "write"}
    /\ spc = "idle" => ~state_lock
    /\ (spc = "idle" /\ ~write_ok) =>
           LET n == Len(outcomes)
           IN /\ n > 0
              /\ data.generations[Len(data.generations)] = outcomes[n]
              /\ data[outcomes[n].status] = CountStatus(outcomes[n].status)
              /\ data.success + data.failure = n

\* C12 witness: save has returned after a failed write, memory is ahead of
\* the disk
C12_Witness ==
    /\ spc = "idle" /\ ~write_ok /\ ~state_lock
    /\ Len(outcomes) >= 2
    /\ state_file.data # data

C14_ArtifactPerFailedAttempt ==
    (gpc = "returned" /\ outcomes # <<>> /\ outcomes[1].status = "success") =>
        /\ Cardinality({x \in failed_files : x[1] = func_name}) = requests - 1
        /\ \A n \in 1..(requests - 1) : <<func_name, n>> \in failed_files

BookmarkEvents == Len(SelectSeq(pref_events, LAMBDA e : e.message = "bookmark"))
BookmarkPending ==
    (IF bookmark_pressed THEN 1 ELSE 0) + (IF dpc = "log_b" THEN 1 ELSE 0)

\* C19 as stated: every bookmark press, other than one made between a
\* press and the read of its flag, has one bookmark record or is still on
\* its way to one.
C19_OneEventPerPress == BookmarkEvents + BookmarkPending = fresh.b

\* C19, amended: every bookmark press that found the flag clear has one
\* bookmark record, or one write that failed, or is still on its way; a
\* press made while the flag is set, read or not, adds nothing.
C19_OneEventPerEdge ==
    BookmarkEvents + pref_lost.b + BookmarkPending = edges.b

\* C19 witness: two bookmark presses, the second made while the flag was
\* set; the check after the playback wrote one record and cleared the flag
C19_Witness ==
    /\ presses.b = 2 /\ edges.b = 1
    /\ BookmarkEvents = 1 /\ pref_lost.b = 0
    /\ ~bookmark_pressed /\ dpc = "get"

\* C20: every record names the animation that was on the display when the
\* press it stands for was made.
C20_EventNamesPlaying ==
    [][Len(pref_events') > Len(pref_events) =>
          LET e == pref_events'[Len(pref_events')]
          IN e.generation_id = IF e.message = "bookmark"
                               THEN press_playing.b ELSE press_playing.d]_vars

\* The sanitizer claims are stated on the lines of the response text with
\* the fence markers and the surrounding whitespace taken off.
CleanLines(raw) == Split(Strip(RemoveAll(RemoveAll(raw, DoubleFence), Fence)))
IsNamedDef(l) == StartsWith(Strip(l), DefKeyword \o FuncText(1))
IsFallbackDef(l) ==
    Contains(l, DefKeyword) /\ Contains(Lower(l), AnimatorWord)
NamedLines(ls) == {i \in 1..Len(ls) : IsNamedDef(ls[i])}
FallbackLines(ls) == {i \in 1..Len(ls) : IsFallbackDef(ls[i])}
\* line i is the definition line: the first named one, or with no named
\* line the first fallback one
Located(named, fallback, i) ==
    \/ /\ i \in named
       /\ \A j \in named : i <= j
    \/ /\ named = {}
       /\ i \in fallback
       /\ \A j \in fallback : i <= j
DefinitionLines(ls, named, fallback) ==
    {i \in 1..Len(ls) : Located(named, fallback, i)}
\* the definition line of the text, as a set: empty when there is none
DefinitionLine(ls) == DefinitionLines(ls, NamedLines(ls), FallbackLines(ls))
\* a line from the definition line on holds the write_frame call
CallFrom(ls, def) ==
    \E i \in def : \E j \in i..Len(ls) : Contains(ls[j], WriteFrameWord)
\* the characters from line i on, newlines included
RECURSIVE LinesLen(_, _)
LinesLen(ls, i) ==
    IF i > Len(ls) THEN 0
    ELSE Len(ls[i]) + (IF i < Len(ls) THEN 1 ELSE 0) + LinesLen(ls, i + 1)
BodyLen(ls, def) == LinesLen(ls, CHOOSE k \in def : TRUE)
Sanitized == requests >= 1 /\ clean_ret # NoCleanRet

MissingCallRejected ==
    /\ constructed = {} /\ enqueued = <<>> /\ queue = <<>>
    /\ Sanitized =>
           (clean_ret.code = None /\ clean_ret.error = "Missing write_frame")
LacksCall(ls, def) == def # {} /\ ~CallFrom(ls, def)
BodyLacksCall(ls) == LacksCall(ls, DefinitionLine(ls))

\* C16: a text whose body (from the definition line on) lacks the
\* write_frame call is rejected with "Missing write_frame", and no
\* Animation is constructed or enqueued from it.
C16_MissingCallRejected ==
    MissingCallRejected \/ ~BodyLacksCall(CleanLines(raw_code))

CallBeforeDefinitionOnly(ls) ==
    /\ BodyLacksCall(ls)
    /\ \E j \in 1..Len(ls) : Contains(ls[j], WriteFrameWord)

\* C16 witness: the call stands only before the definition line, and the
\* attempt has failed
C16_Witness ==
    /\ Sanitized
    /\ clean_ret.error = "Missing write_frame"
    /\ attempt = 2 /\ Len(all_errors) = 1
    /\ CallBeforeDefinitionOnly(CleanLines(raw_code))

CheckOrder(ls, def) ==
    /\ clean_ret.error =
          IF def = {} THEN "No function found"
          ELSE IF ~CallFrom(ls, def) THEN "Missing write_frame"
          ELSE IF BodyLen(ls, def) < MIN_CODE_LEN THEN "Code too short"
          ELSE ""
    /\ clean_ret.code # None <=>
          (def # {} /\ CallFrom(ls, def) /\ BodyLen(ls, def) >= MIN_CODE_LEN)
CheckOrderOn(ls) == CheckOrder(ls, DefinitionLine(ls))

\* C17: the sanitizer reports the first failing check in the order no
\* definition, missing call, too short, and returns code exactly when all
\* three checks pass.
C17_CheckOrder == Sanitized => CheckOrderOn(CleanLines(raw_code))

ShortWithoutCall(ls, def) ==
    LacksCall(ls, def) /\ BodyLen(ls, def) < MIN_CODE_LEN

\* C17 witness: a body that lacks the call and is also too short
C17_Witness ==
    /\ Sanitized
    /\ clean_ret.error = "Missing write_frame"
    /\ ShortWithoutCall(CleanLines(raw_code),
                        DefinitionLine(CleanLines(raw_code)))

SuccessOutput(ls, def, out) ==
    LET body == SubSeq(out, Len(ImportHeader) + 1, Len(out))
        i == CHOOSE k \in def : TRUE
    IN /\ clean_ret.error = ""
       /\ StartsWith(out, ImportHeader)
       /\ Split(body) = SubSeq(ls, i, Len(ls))
       /\ ~Contains(body, Fence)
       /\ body[Len(body)] \notin Whitespace
       /\ Len(body) = LinesLen(ls, i)
SuccessOutputOn(ls, out) == SuccessOutput(ls, DefinitionLine(ls), out)

\* C18: on success the error is empty and the code is the import header
\* followed by the text from the definition line to the end, without fence
\* markers, without the whitespace around the text and without the lines
\* before the definition.
C18_SuccessOutput ==
    (Sanitized /\ clean_ret.code # None) =>
        SuccessOutputOn(CleanLines(raw_code), clean_ret.code)

\* C18 witness: a fenced response with a line before the definition line
C18_Witness ==
    /\ Sanitized /\ clean_ret.code # None
    /\ gpc = "save"
    /\ Contains(raw_code, Fence)
    /\ 1 \notin DefinitionLine(CleanLines(raw_code))

\* --------------------------------------------------------------- C21
\* One step of the mailbox of a key: the read reports a press exactly when
\* the flag is set, the flag is clear when the read that found it returns,
\* the flag goes from set to clear only in that step of its read, and from
\* clear to set only when the listener reads the key.
MailboxStep(flag, flag2, check, clear, after, miss, key) ==
    /\ (dpc = check /\ dpc' # check) =>
           /\ dpc' = (IF flag THEN clear ELSE miss)
           /\ flag2 = flag
    /\ (dpc = clear /\ dpc' # clear) => (dpc' = after /\ ~flag2)
    /\ (flag /\ ~flag2) => (dpc = clear /\ dpc' = after)
    /\ (~flag /\ flag2) => presses'[key] = presses[key] + 1

\* C21: each flag of the KeyboardListener is a read-and-clear mailbox:
\* check_and_clear (check_and_clear_downvote) returns true exactly when the
\* flag is set and leaves it cleared, a repeated call returns false unless
\* the key was pressed in between, and nothing but these reads clears a
\* flag.
C21_Mailbox ==
    [][/\ MailboxStep(bookmark_pressed, bookmark_pressed', "check_b",
                      "clear_b", "log_b", "check_d", "b")
       /\ MailboxStep(downvote_pressed, downvote_pressed', "check_d",
                      "clear_d", "log_d", "clear", "d")]_vars

\* C21 witness: the one press of 'b' was reported after the first playback
\* and the read after the second playback has returned false
C21_Witness ==
    /\ presses.b = 1 /\ ~bookmark_pressed
    /\ Len(dequeued) = 2 /\ dpc = "check_d"
    /\ Len(pref_events) = 1
    /\ pref_events[1] = PrefEvent("bookmark", dequeued[1])

\* --------------------------------------------------------------- C22
\* The reads of the two flags that found a press: check_and_clear or
\* check_and_clear_downvote is about to return True or has done so
ReadFoundPress == dpc \in {"clear_b", "log_b", "clear_d", "log_d"}

\* C22: when stdin is not a terminal, start() starts no background loop, the
\* terminal mode is never changed, both flags stay false, every read of a
\* flag returns false and stop() returns without a thread to wait for.
C22_NoTerminalNoListener ==
    ~isatty =>
        /\ lpc = "none" /\ "keyboard" \notin loops /\ ~kb_running
        /\ term_mode = PriorMode /\ old_settings = NoSettings
        /\ ~bookmark_pressed /\ ~downvote_pressed
        /\ ~ReadFoundPress /\ pref_events = <<>>
        /\ mpc # "kb_join"

\* C22 witness: without a terminal, after a playback check_and_clear has
\* returned false and check_and_clear_downvote is next
C22_Witness ==
    /\ ~isatty /\ env = "ok"
    /\ mpc = "body" /\ dpc = "check_d"
    /\ animation # NoAnimation

\* --------------------------------------------------------------- C23
\* C23: the listener restores the prior mode of the input device when it
\* ends: once stop() has cleared the running flag of a started listener,
\* the device is eventually back in its prior mode.
C23_RestoredAfterStop == (mpc = "kb_join") ~> (term_mode = PriorMode)

\* The thread that ran its finally clause has restored the mode it saved.
ListenerEndRestores == lpc = "done" => term_mode = PriorMode

\* --------------------------------------------------------------- C24
\* The positions of DisplayController.run inside its loop
RunPcs == {"get", "placeholder", "play", "except", "clear"} \cup FeedbackPcs

\* The display loop is left by the KeyboardInterrupt that stops it
Stopped == mpc = "body" /\ mpc' = "kb_stop"

\* C24: an exception of an Animation's callable during playback fails only
\* that animation: run() catches it with the queue, the generator and the
\* process untouched, clears the display and goes on to the next dequeue;
\* the loop of run() ends only when it is stopped.
C24_PlaybackErrorContained ==
    [][/\ (dpc = "play" /\ dpc' = "except") =>
              /\ phase' = "running" /\ mpc' = mpc
              /\ queue' = queue /\ genVars' = genVars
       /\ (dpc = "except" /\ dpc' # "except") => (dpc' = "clear" \/ Stopped)
       /\ (dpc = "clear" /\ dpc' # "clear") => (dpc' = "get" \/ Stopped)
       /\ (dpc \in RunPcs /\ dpc' \notin RunPcs) => Stopped]_vars

\* C24 witness: the callable of the animation taken from the queue has
\* raised and run() is in its except clause
C24_Witness ==
    /\ mode = "continuous" /\ mpc = "body"
    /\ dpc = "except"
    /\ Len(dequeued) = 1 /\ animation = dequeued[1]

\* --------------------------------------------------------------- C25
\* The positions of the three playback loops between the end of a playback
\* and the start of the next one, and those of them whose next step is the
\* clear of the display
AfterPlayback ==
    FeedbackPcs \cup {"except", "clear", "single_except", "single_clear",
                      "replay_clear"}
ClearPcs == {"clear", "single_clear", "replay_clear"}

\* C25: in each playback loop (run, run_single, replay) the display is
\* cleared between the end of one playback and the start of the next,
\* whether the playback returned or raised: a running loop leaves the
\* positions after a playback only by its clear step.
C25_ClearedBetweenPlaybacks ==
    [][(dpc \in AfterPlayback /\ dpc' \notin AfterPlayback /\ phase' = "running")
           => dpc \in ClearPcs]_vars

\* The same for the loops of run() and of the replay mode alone
ClearedInRunAndReplay ==
    [][(dpc \in AfterPlayback /\ dpc' \notin AfterPlayback /\ phase' = "running")
           => dpc \in ClearPcs \cup {"single_except"}]_vars

\* --------------------------------------------------------------- C26
\* C26: the generator loop never begins an attempt sequence while the queue
\* holds QUEUE_SIZE Animations: generate_one is called from the loop only
\* in a state with fewer, and on a full queue the loop sleeps and checks
\* again.
C26_NoStartWhenFull ==
    [][(mode = "continuous" /\ phase' = "running") =>
           /\ gen_count' # gen_count => qsize(queue) < QUEUE_SIZE
           /\ (gpc = "iter" /\ gpc' # "iter" /\ qsize(queue) >= QUEUE_SIZE) =>
                  (gpc' = "sleep" /\ gen_count' = gen_count)
           /\ (gpc = "sleep" /\ gpc' # "sleep") => gpc' = "loop"]_vars

\* C26 witness: the queue is full and the loop waits instead of generating
C26_Witness ==
    /\ mode = "continuous" /\ phase = "running"
    /\ qsize(queue) = QUEUE_SIZE
    /\ gpc = "sleep" /\ gen_count >= QUEUE_SIZE

\* --------------------------------------------------------------- C27
\* C27: an initialization failure (display device missing or not openable,
\* model missing, service unreachable) ends the process with a non-zero
\* exit status, and no long-lived loop has been started by then.
C27_InitFailureFatal ==
    (env # "ok" /\ phase = "exited") => (exit_status > 0 /\ loops = {})

\* The same for the failures that init_check finds
InitCheckFailureFatal ==
    (env \in InitCheckFailures /\ phase = "exited") =>
        (exit_status = 1 /\ loops = {})

\* --------------------------------------------------------------- C28
\* generate_one_singleshot has returned to main after all attempts of the
\* idea failed: the failure outcome is recorded and nothing is queued
JustExhausted ==
    /\ phase = "running" /\ gpc = "returned"
    /\ queue = <<>> /\ outcomes # <<>>
    /\ outcomes[Len(outcomes)] .status = "failure"
    /\ outcomes[Len(outcomes)] .function = func_name

FailedExit == phase' = "exited" /\ exit_status' # 0

\* C28: exhausting the attempt budget of an idea is never process-fatal, in
\* every mode: after all attempts failed the process does not exit because
\* of it.
C28_ExhaustionNotFatal == [][JustExhausted => ~FailedExit]_vars

\* C28, amended: the exhausted budget records the failure outcome and
\* returns to the caller; in continuous mode the generator loop goes on
\* and the process ends only when it is stopped, in single-shot mode main
\* then ends the process with exit status 1.
C28_ExhaustionFatalInSingleshotOnly ==
    [][/\ (gpc = "exhausted" /\ gpc' # "exhausted" /\ phase' = "running") =>
              /\ Len(outcomes') = Len(outcomes) + 1
              /\ outcomes'[Len(outcomes')] .status = "failure"
              /\ outcomes'[Len(outcomes')] .function = func_name
              /\ gpc' = (IF mode = "continuous" THEN "loop" ELSE "returned")
       /\ (JustExhausted /\ FailedExit) =>
              (mode = "singleshot" /\ exit_status' = 1)
       /\ (mode = "continuous" /\ phase = "running" /\ phase' = "exited") =>
              exit_status' = 0]_vars

\* C28 witness: continuous mode, the first idea has used up its attempts,
\* its failure is recorded and the loop is generating the second idea
C28_Witness ==
    /\ mode = "continuous" /\ phase = "running"
    /\ outcomes # <<>> /\ outcomes[1].status = "failure"
    /\ outcomes[1].function = 1
    /\ func_name = 2 /\ gpc = "request"

\* --------------------------------------------------------------- C29
\* The step in which the attempt sequence of func_name ends
SequenceEnds ==
    /\ gpc \in {"post", "exhausted"} /\ gpc' \in {"loop", "returned"}
    /\ phase' = "running"

HasEnqueued(f) == \E i \in 1..Len(enqueued) : enqueued[i].func_name = f

\* C29: whenever an Animation is enqueued, the same attempt sequence
\* records a success outcome for that function id and emits a training
\* example before it ends: no sequence that put an Animation on the queue
\* ends without outcome=success.
C29_EnqueuedThenSuccess ==
    [][(SequenceEnds /\ HasEnqueued(func_name)) =>
           /\ outcomes'[Len(outcomes')] = Outcome(func_name, "success", <<>>)
           /\ Len(outcomes') = Len(outcomes) + 1
           /\ Len(training') = Len(training) + 1]_vars

\* --------------------------------------------------------------- C30
\* C30: validate_runtime returns to its caller once the deadline has passed
\* even if the helper never ends: the join returns with the helper running,
\* the caller returns the timeout error, the helper is neither joined again
\* nor terminated, and the Generator goes on to the next attempt (or to the
\* end of the sequence) with the abandoned helper still there.
C30_TimeoutAbandonsHelper ==
    [][phase' = "running" =>
          /\ (gpc = "vr_join" /\ hpc = "running" /\ gpc' # "vr_join") =>
                 (gpc' = "vr_check" /\ hpc' = "running")
          /\ (gpc = "vr_check" /\ hpc = "running" /\ gpc' # "vr_check") =>
                 /\ gpc' = "vr_ret" /\ hpc' = "abandoned"
                 /\ ~vr_ret'.valid /\ vr_ret'.error = "Timeout"
          /\ (gpc = "vr_ret" /\ hpc = "abandoned" /\ gpc' # "vr_ret") =>
                 (gpc' \in {"request", "exhausted"} /\ hpc' = "abandoned")
          /\ (hpc = "abandoned" /\ gpc' = "vr_join") =>
                 (gpc = "vr_join" \/ hpc' = "running")
          /\ (hpc = "abandoned" /\ hpc' # "abandoned") =>
                 (gpc = "vr_start" /\ hpc' = "running")]_vars

\* C30 witness: the helper of attempt 1 ran code that never ends; the
\* Generator is requesting attempt 2 and the helper is still abandoned
C30_Witness ==
    /\ phase = "running" /\ gpc = "request" /\ attempt = 2
    /\ func_name # 0 /\ files[func_name].kind = "hang"
    /\ hpc = "abandoned"

\* ------------------------------------------------------------------ C31
\* The display an execution unit writes to.  show_loading, show_placeholder,
\* the playback, the clears and stop() go through DisplayController
\* .animator, built on the device; the validation helper is handed
\* capture.animator, built on CD5220.create_simulator_only.
Units == {"loading", "main", "helper"}
WriteTarget(unit) == IF unit = "helper" THEN "synthetic" ELSE "live"

\* The positions at which a unit is inside a write to its display: the
\* loading thread in write_frame or in its final branch, the main thread
\* in the placeholder, a playback, a clear or the clear of display.stop()
\* (which needs an animator, so an opened device), the helper while the
\* generated function runs.
MainWritePcs == {"placeholder", "play", "clear", "single_play", "single_clear"}
Writing(unit) ==
    CASE unit = "loading" -> ldpc \in {"write", "final"}
      [] unit = "main" -> dpc \in MainWritePcs \/ (mpc = "display_stop" /\ env = "ok")
      [] unit = "helper" -> hpc \in {"running", "abandoned"}
LiveWriters == {u \in Units : Writing(u) /\ WriteTarget(u) = "live"}

\* C31: at no time are two execution units inside a write to the live
\* display: the loading thread, the placeholder and the playback never
\* overlap, and the validation helper, abandoned or not, writes to its own
\* synthetic display.
C31_OneLiveWriter == Cardinality(LiveWriters) <= 1

\* What holds: the helper is never a writer of the live display, and
\* DisplayController.run and run_single are one thread.
HelperOffLiveDisplay == "helper" \notin LiveWriters

\* The overlap the join timeout allows: the first playback with the
\* loading thread still in a write.
PlaybackDuringLoading == dpc \in {"play", "single_play"} /\ ldpc \in {"write", "final"}

\* ------------------------------------------------------------------ C32
RequestStep == requests' = requests + 1
PassedBefore(f) == \E v \in validated : v[1] = f

\* C32: per idea the Generator issues at most MAX_RETRIES requests,
\* numbered 1, 2, ... in order, and none after an attempt of that idea has
\* passed runtime validation.
C32_RequestsPerIdea ==
    [][RequestStep =>
          /\ sent'.attempt \in 1..MAX_RETRIES
          /\ sent'.attempt = sent.attempt + 1
          /\ ~PassedBefore(func_name)]_vars

\* What holds: the numbering and the bound.
RequestsNumbered ==
    [][RequestStep =>
          /\ sent'.attempt \in 1..MAX_RETRIES
          /\ sent'.attempt = sent.attempt + 1]_vars

\* ------------------------------------------------------------------ C33
ErrorTags == {"Gen", "Save", "Syntax", "Compile", "Function missing", "Runtime"}
BetweenAttempts == {"loop", "iter", "sleep", "begin", "exhausted", "returned", "off"}
FailedAttemptStep ==
    /\ gpc \notin BetweenAttempts
    /\ gpc' \in {"request", "exhausted"}
    /\ phase' = "running"
CarriedCount(n) == IF n - 1 < 3 THEN n - 1 ELSE 3
MostRecent(errs, k) == SubSeq(errs, Len(errs) - k + 1, Len(errs))

\* C33: a failed attempt, whatever its stage, appends one tagged error and
\* restarts with the same function id (the next attempt number while
\* attempts remain); the request of attempt n > 1 carries the most recent
\* min(3, n-1) accumulated errors in order, that of attempt 1 none.
C33_ErrorsAccumulateAndCarry ==
    [][/\ FailedAttemptStep =>
            /\ Len(all_errors') = Len(all_errors) + 1
            /\ SubSeq(all_errors', 1, Len(all_errors)) = all_errors
            /\ all_errors'[Len(all_errors')].tag \in ErrorTags
            /\ func_name' = func_name
            /\ attempt < MAX_RETRIES => gpc' = "request" /\ attempt' = attempt + 1
       /\ RequestStep =>
            /\ Len(all_errors) >= CarriedCount(sent'.attempt)
            /\ sent'.errors = MostRecent(all_errors, CarriedCount(sent'.attempt))
            /\ sent'.attempt = 1 => sent'.errors = <<>>]_vars

\* The fifth request of a sequence carries three of the four errors, which
\* come from different stages.
C33_Witness ==
    /\ sent.attempt = MAX_RETRIES
    /\ Len(sent.errors) = 3
    /\ Len(all_errors) >= 4
    /\ Cardinality({all_errors[i].tag : i \in 1..4}) >= 3
    /\ sent.errors = SubSeq(all_errors, 2, 4)

\* ------------------------------------------------------------------ C34
\* The stage of an attempt a position of the retry loop belongs to.
StageOf(pc) ==
    CASE pc = "request" -> 1
      [] pc = "save" -> 2
      [] pc = "syntax" -> 3
      [] pc = "bind" -> 4
      [] pc \in {"vr_start", "vr_join", "vr_check", "vr_ret"} -> 5
      [] pc \in {"persist", "construct", "enqueue", "post"} -> 6
      [] OTHER -> 0
InAttempt(pc) == StageOf(pc) > 0
CurrentCode == code.ver = <<func_name, attempt>>

\* C34: within one attempt the stages run in the order request, sanitize,
\* syntax check, bind, runtime validate; a failed stage ends the attempt:
\* only text the sanitizer accepted is syntax-checked, only code that
\* passed the syntax check is bound, and only bound code is executed.
C34_StageOrder ==
    [][/\ (InAttempt(gpc) /\ InAttempt(gpc') /\ attempt' = attempt) =>
             StageOf(gpc') \in {StageOf(gpc), StageOf(gpc) + 1}
       /\ (InAttempt(gpc) /\ InAttempt(gpc') /\ attempt' # attempt) =>
             (attempt' = attempt + 1 /\ gpc' = "request")
       /\ StageOf(gpc') \in {2, 3} =>
             (clean_ret'.code # None /\ CurrentCode')
       /\ StageOf(gpc') = 4 =>
             (clean_ret'.code # None /\ CurrentCode' /\ validate_syntax(code'))
       /\ (StageOf(gpc') = 5 \/ (hpc' = "running" /\ hpc # "running")) =>
             /\ clean_ret'.code # None /\ CurrentCode'
             /\ validate_syntax(code') /\ ~ExecRaises(code') /\ Defines(code')]_vars

\* A sequence in which the sanitizer rejected one response and the syntax
\* check another, and a later attempt has reached runtime validation.
C34_Witness ==
    /\ failed_files # {}
    /\ \E i \in 1..Len(all_errors) : all_errors[i].tag = "Syntax"
    /\ gpc = "vr_join" /\ hpc = "running"

\* ------------------------------------------------------------------ C35
\* A line that defines a function named exactly FuncText(1)
IsExactDef(l) == StartsWith(Strip(l), DefKeyword \o FuncText(1) \o <<"(">>)
HeaderLines == Len(Split(ImportHeader)) - 1
ReturnedLines == Split(clean_ret.code)

\* C35: every Cleaned Code the sanitizer returns for the target identifier
\* contains a definition of a function named exactly that identifier,
\* whether the definition was found by the direct or by the fallback match.
C35_DefinesTarget ==
    (Sanitized /\ clean_ret.code # None) =>
        \E i \in 1..Len(ReturnedLines) : IsExactDef(ReturnedLines[i])

\* C35 amended: the Cleaned Code begins, after the import header, with the
\* located definition line: a line that starts with "def <identifier>"
\* when the text has one, else a line that holds "def " and "animator",
\* whatever function it defines.
C35_StartsAtDefinition ==
    (Sanitized /\ clean_ret.code # None) =>
        LET first == ReturnedLines[HeaderLines + 1]
        IN IF NamedLines(CleanLines(raw_code)) # {}
           THEN IsNamedDef(first)
           ELSE IsFallbackDef(first)

\* Cleaned Code found by the fallback match that defines no function of
\* the requested name
C35_Witness ==
    /\ Sanitized /\ clean_ret.code # None
    /\ gpc = "save"
    /\ NamedLines(CleanLines(raw_code)) = {}
    /\ ~\E i \in 1..Len(ReturnedLines) : IsExactDef(ReturnedLines[i])

\* ------------------------------------------------------------------ C36
\* C36: when the dequeue wait expires on an empty queue the controller
\* enters the placeholder; the placeholder takes nothing from the queue,
\* runs a further cycle only while the queue is empty and at most
\* PLACEHOLDER_CYCLES cycles, and is followed by the next poll of the
\* queue; the controller always leaves both the wait and the placeholder.
C36_PlaceholderBounded ==
    /\ [][(dpc = "get" /\ queue = <<>> /\ dpc' # "get") =>
              (dpc' = "placeholder" /\ cycles' = 0)]_vars
    /\ [][dpc = "placeholder" =>
              /\ dequeued' = dequeued
              /\ Len(queue') >= Len(queue)
              /\ SubSeq(queue', 1, Len(queue)) = queue]_vars
    /\ [][(dpc = "placeholder" /\ dpc' = "placeholder" /\ cycles' # cycles) =>
              /\ queue = <<>>
              /\ cycles' = cycles + 1
              /\ cycles' <= PLACEHOLDER_CYCLES]_vars
    /\ [][(dpc = "placeholder" /\ dpc' # "placeholder") => dpc' = "get"]_vars
    /\ (dpc = "placeholder") ~> (dpc = "get")
    /\ (dpc = "get") ~> (dpc \in {"play", "placeholder"})

\* The placeholder has run all its cycles on a queue that stayed empty.
C36_Witness ==
    dpc = "placeholder" /\ cycles = PLACEHOLDER_CYCLES /\ queue = <<>>

\* ------------------------------------------------------------------ C37
\* C37: the frames persisted for a played animation are exactly the frames
\* written during its playback: none of an earlier playback, of the
\* loading indicator or of the placeholder.
C37_PlaybackFramesOwn ==
    \A f \in FuncIds :
        playback_files[f] # {} => playback_files[f] = {<<"playback", f>>}

\* What holds: the file of a played animation holds the frames of its own
\* playback.
OwnFramesSaved ==
    \A f \in FuncIds :
        playback_files[f] # {} => <<"playback", f>> \in playback_files[f]


\* ------------------------------------------------------------------ C38
\* Generator.stop() has cleared the flag of the Generator and the process
\* still runs
GenStopCalled ==
    /\ mode = "continuous" /\ phase = "running"
    /\ mpc \in {"gen_join", "display_stop"}
\* The controller of continuous mode takes an Animation off the queue
Dequeues == mode = "continuous" /\ Len(queue') < Len(queue)
\* Each loop has ended: by its check of the flag, or with the process
GeneratorEnded == gpc \in {"stopped", "off"}
ListenerEnded == lpc \in {"done", "killed"}

\* C38 as stated: once Generator.stop has cleared the flag the Generator
\* starts no new attempt sequence, the controller whose flag is cleared
\* dequeues no further Animation, and the loops eventually exit.
C38_NoSequenceAfterStop ==
    /\ [][(GenStopCalled /\ phase' = "running") => gen_count' = gen_count]_vars
    /\ [][(Dequeues /\ phase' = "running") => disp_running]_vars
    /\ GenStopCalled ~> GeneratorEnded
    /\ (mpc = "kb_join") ~> ListenerEnded

\* C38 amended: once Generator.stop has cleared the flag no check of the
\* flag passes any more, so no further iteration begins; an attempt
\* sequence starts after the clear only in the iteration whose check had
\* passed before it.  The controller dequeues only while its flag is set,
\* and each loop ends, at its next check of the flag or with the process.
C38_NoCheckPassesAfterStop ==
    /\ [][(GenStopCalled /\ phase' = "running") =>
              /\ ~(gpc = "loop" /\ gpc' = "iter")
              /\ gen_count' # gen_count => gpc = "iter"
              /\ (gpc = "loop" /\ gpc' # gpc) => gpc' = "stopped"]_vars
    /\ [][(Dequeues /\ phase' = "running") => disp_running]_vars
    /\ GenStopCalled ~> GeneratorEnded
    /\ (mpc = "kb_join") ~> ListenerEnded

\* C38 witness: after generator.stop() the loop has found its flag cleared
\* and has exited, after at least one attempt sequence
C38_Witness ==
    /\ GenStopCalled /\ ~gen_running
    /\ gpc = "stopped" /\ outcomes # <<>>

\* ------------------------------------------------------------------ C39
\* The listener reads the character ch in this step
Reads(ch) == KeyPress(ch)

\* C39 as stated: exactly the two characters 'b' and 'd' are recognized:
\* reading 'b' sets only the bookmark flag, reading 'd' only the downvote
\* flag, reading any other character leaves both flags unchanged.
C39_TwoCharacters ==
    [][\A ch \in KeyChars : Reads(ch) =>
          /\ ch = "b" => (bookmark_pressed' /\ UNCHANGED downvote_pressed)
          /\ ch = "d" => (downvote_pressed' /\ UNCHANGED bookmark_pressed)
          /\ ch \notin {"b", "d"} =>
                 UNCHANGED <<bookmark_pressed, downvote_pressed>>]_vars

\* C39 amended: the two letters are recognized in either case: reading 'b'
\* or 'B' sets only the bookmark flag, reading 'd' or 'D' only the downvote
\* flag, reading any other character leaves both flags unchanged.
C39_TwoLettersEitherCase ==
    [][\A ch \in KeyChars : Reads(ch) =>
          /\ ch \in {"b", "B"} =>
                 (bookmark_pressed' /\ UNCHANGED downvote_pressed)
          /\ ch \in {"d", "D"} =>
                 (downvote_pressed' /\ UNCHANGED bookmark_pressed)
          /\ ch \notin {"b", "B", "d", "D"} =>
                 UNCHANGED <<bookmark_pressed, downvote_pressed>>]_vars

\* C39 witness: a bookmark key and an ignored key have been read and only
\* the bookmark flag is set
C39_Witness ==
    /\ presses.b > 0 /\ presses.other > 0 /\ presses.d = 0
    /\ bookmark_pressed /\ ~downvote_pressed


\* ------------------------------------------------------------------ C40
\* C40: in continuous mode the put of the Generator never has to wait: at
\* the moment of every queue.put the queue holds fewer than QUEUE_SIZE
\* Animations.
C40_PutNeverWaits ==
    (mode = "continuous" /\ phase = "running" /\ gpc = "enqueue") =>
        qsize(queue) < QUEUE_SIZE

====
